---- MODULE Spec2Model ----
(***************************************************************************)
(* Model of the ReactGridLayout layout controller (function component     *)
(* with hooks), the GridItem pixel/grid conversions that feed it, and the  *)
(* layout utilities it imports from ./utils.                               *)
(*                                                                         *)
(* Item objects are JavaScript objects: the controller's state holds a     *)
(* reference to an array of item objects.  The heap maps an address to the *)
(* array (with its items) stored there; layoutState and oldLayout hold     *)
(* addresses, so that setOldLayout(layoutState) shares the array and a     *)
(* write `l.w = w` through getLayoutItem is seen through both references.  *)
(***************************************************************************)
EXTENDS Integers, Sequences, FiniteSets, TLC

\* ---------------------------------------------------------------- bounds
cols == 2
maxRows == 2
MaxRaces == 1
ColWidthPx == 30
rowHeight == 30

\* ------------------------------------------------------ program constants
Infinity == 1000
DefaultMin == 1
MarginPx == 10

\* null as the value of an object-valued variable, and as a reference or key
Null == [null |-> TRUE]
NullRef == "null"
PropsLayout == "props.layout"
\* an optional boolean is "true", "false" or not given (undefined)
Unset == "unset"
KeyOrder == <<"a", "b", "c">>
Keys == {KeyOrder[n] : n \in 1..Len(KeyOrder)}
KeyRank(k) == CHOOSE n \in 1..Len(KeyOrder) : KeyOrder[n] = k
Addr == {"A", "B"}

Max(a, b) == IF a >= b THEN a ELSE b
Min(a, b) == IF a <= b THEN a ELSE b

\* Math.round(n / d) for d > 0: round half up
Round(n, d) == (2 * n + d) \div (2 * d)

\* ------------------------------------------------------------ layout items
Item(i, x, y, w, h) ==
  [i |-> i, x |-> x, y |-> y, w |-> w, h |-> h,
   minW |-> DefaultMin, maxW |-> Infinity, minH |-> DefaultMin, maxH |-> Infinity,
   static |-> FALSE, isDraggable |-> Unset, isResizable |-> Unset,
   persistentW |-> 0, persistentH |-> 0]

cloneLayoutItem(l) == l

\* index of the item with key i in the layout, 0 when absent
IndexOf(layout, i) ==
  IF \E n \in 1..Len(layout) : layout[n].i = i
  THEN CHOOSE n \in 1..Len(layout) : layout[n].i = i
  ELSE 0

getLayoutItem(layout, i) ==
  IF IndexOf(layout, i) = 0 THEN Null ELSE layout[IndexOf(layout, i)]

LayoutKeys(layout) == {layout[n].i : n \in 1..Len(layout)}

RECURSIVE bottomFrom(_, _)
bottomFrom(layout, n) ==
  IF n > Len(layout) THEN 0
  ELSE Max(layout[n].y + layout[n].h, bottomFrom(layout, n + 1))

bottom(layout) == bottomFrom(layout, 1)

\* ------------------------------------------------------ collision detector
collides(a, b) ==
  /\ a.i # b.i
  /\ a.x + a.w > b.x
  /\ a.x < b.x + b.w
  /\ a.y + a.h > b.y
  /\ a.y < b.y + b.h

getAllCollisions(layout, item) ==
  SelectSeq(layout, LAMBDA o : collides(o, item))

\* ---------------------------------------------------------------- compactor
\* l comes before m in the processing order of the compaction type
SortsBefore(l, m, compactType) ==
  LET kl == IF compactType = "horizontal"
            THEN <<l.x, l.y, KeyRank(l.i)>> ELSE <<l.y, l.x, KeyRank(l.i)>>
      km == IF compactType = "horizontal"
            THEN <<m.x, m.y, KeyRank(m.i)>> ELSE <<m.y, m.x, KeyRank(m.i)>>
  IN \/ kl[1] < km[1]
     \/ kl[1] = km[1] /\ kl[2] < km[2]
     \/ kl[1] = km[1] /\ kl[2] = km[2] /\ kl[3] < km[3]

\* indices of the layout in processing order
RECURSIVE SortIdx(_, _, _)
SortIdx(layout, S, compactType) ==
  IF S = {} THEN <<>>
  ELSE LET first == CHOOSE n \in S :
                      \A m \in S \ {n} : SortsBefore(layout[n], layout[m], compactType)
       IN <<first>> \o SortIdx(layout, S \ {first}, compactType)

sortLayoutItems(layout, compactType) ==
  IF compactType \in {"vertical", "horizontal"}
  THEN SortIdx(layout, 1..Len(layout), compactType)
  ELSE [n \in 1..Len(layout) |-> n]

getStatics(layout) == {layout[n] : n \in {m \in 1..Len(layout) : layout[m].static}}

Free(placed, l) == \A o \in placed : ~collides(o, l)

\* the position nearest to the origin on the compaction axis where l does
\* not collide with an item already placed
RECURSIVE FirstFreeY(_, _, _)
FirstFreeY(placed, l, y) ==
  IF Free(placed, [l EXCEPT !.y = y]) THEN y ELSE FirstFreeY(placed, l, y + 1)

RECURSIVE FirstFreeX(_, _, _)
FirstFreeX(placed, l, x) ==
  IF Free(placed, [l EXCEPT !.x = x]) THEN x ELSE FirstFreeX(placed, l, x + 1)

compactItem(placed, l, compactType) ==
  IF compactType = "vertical" THEN [l EXCEPT !.y = FirstFreeY(placed, l, 0)]
  ELSE IF compactType = "horizontal" THEN [l EXCEPT !.x = FirstFreeX(placed, l, 0)]
  ELSE l

RECURSIVE CompactPass(_, _, _, _, _)
CompactPass(out, order, n, placed, compactType) ==
  IF n > Len(order) THEN out
  ELSE LET idx == order[n]
           l == out[idx]
       IN IF l.static
          THEN CompactPass(out, order, n + 1, placed, compactType)
          ELSE LET c == compactItem(placed, l, compactType)
               IN CompactPass([out EXCEPT ![idx] = c], order, n + 1,
                              placed \cup {c}, compactType)

\* x + w <= c, reducing x and never w
ClampXCols(l, c) == IF l.x + l.w > c THEN [l EXCEPT !.x = c - l.w] ELSE l

ClampX(l) == ClampXCols(l, cols)

\* compact(layout, compactType, cols) for a container of c columns
compactCols(layout, compactType, c) ==
  LET packed == CompactPass(layout, sortLayoutItems(layout, compactType), 1,
                            getStatics(layout), compactType)
  IN [n \in 1..Len(layout) |-> ClampXCols(packed[n], c)]

\* compact for the container of the cols prop
compact(layout, compactType) == compactCols(layout, compactType, cols)

\* --------------------------------------------------------- placement engine
SetItem(layout, l) == [layout EXCEPT ![IndexOf(layout, l.i)] = l]

\* indices in layout order of the items colliding with the item of key i
\* that the cascade has not displaced yet
CollidingIdx(layout, i, visited) ==
  LET l == getLayoutItem(layout, i)
  IN {n \in 1..Len(layout) : collides(layout[n], l) /\ layout[n].i \notin visited}

\* the neighbour c swapped to the origin side of the mover l, when there is
\* room for it there and the place is free
SwapTarget(layout, l, c, compactType) ==
  IF compactType = "horizontal" THEN [c EXCEPT !.x = l.x - c.w]
  ELSE [c EXCEPT !.y = l.y - c.h]

CanSwap(layout, l, c, compactType) ==
  LET t == SwapTarget(layout, l, c, compactType)
  IN /\ t.x >= 0
     /\ t.y >= 0
     /\ \A n \in 1..Len(layout) : ~collides(layout[n], t)

\* c pushed along the compaction axis by the least amount that clears l
PushTarget(l, c, compactType) ==
  IF compactType = "horizontal" THEN [c EXCEPT !.x = l.x + l.w]
  ELSE [c EXCEPT !.y = l.y + l.h]

RECURSIVE Displace(_, _, _, _, _)
Displace(layout, i, visited, isUserAction, compactType) ==
  LET S == CollidingIdx(layout, i, visited)
  IN IF S = {} THEN layout
     ELSE LET n == CHOOSE m \in S : \A k \in S : m <= k
              l == getLayoutItem(layout, i)
              c == layout[n]
          IN IF c.static
             THEN \* the mover is blocked at the obstacle's edge
                  Displace(SetItem(layout, PushTarget(c, l, compactType)), i,
                           visited \cup {c.i}, FALSE, compactType)
             ELSE IF isUserAction /\ CanSwap(layout, l, c, compactType)
             THEN Displace(SetItem(layout, SwapTarget(layout, l, c, compactType)), i,
                           visited \cup {c.i}, isUserAction, compactType)
             ELSE Displace(
                    Displace(SetItem(layout, PushTarget(l, c, compactType)), c.i,
                             visited \cup {i, c.i}, FALSE, compactType),
                    i, visited \cup {c.i}, isUserAction, compactType)

moveElement(layout, l, toX, toY, isUserAction, preventCollision, compactType) ==
  IF IndexOf(layout, l.i) = 0 THEN layout
  ELSE LET cur == getLayoutItem(layout, l.i)
           x == Max(Min(toX, cols - cur.w), 0)
           y == Max(toY, 0)
           moved == [cur EXCEPT !.x = x, !.y = y]
           placed == SetItem(layout, moved)
       IN IF preventCollision
          THEN IF Len(getAllCollisions(layout, moved)) > 0 THEN layout ELSE placed
          ELSE Displace(placed, l.i, {l.i}, isUserAction, compactType)

\* -------------------------------------------------------- child synchronizer
getChildrenKeys(children) == children

\* a new item appended below the content built so far, in c columns
NewItemCols(out, k, c) ==
  LET l == Item(k, 0, bottom(out), 1, 1)
      w == Min(l.w, c)
  IN [l EXCEPT !.w = w, !.x = Min(l.x, c - w)]

NewItem(out, k) == NewItemCols(out, k, cols)

RECURSIVE MergeChildrenCols(_, _, _, _, _)
MergeChildrenCols(layoutBase, children, n, out, c) ==
  IF n > Len(children) THEN out
  ELSE LET k == children[n]
           exists == getLayoutItem(layoutBase, k)
       IN MergeChildrenCols(layoutBase, children, n + 1,
            Append(out, IF exists # Null THEN cloneLayoutItem(exists)
                        ELSE NewItemCols(out, k, c)), c)

MergeChildren(layoutBase, children, n, out) ==
  MergeChildrenCols(layoutBase, children, n, out, cols)

\* synchronizeLayoutWithChildren(layoutBase, children, cols, compactType) for
\* a container of c columns
synchronizeCols(layoutBase, children, c, compactType) ==
  compactCols(MergeChildrenCols(layoutBase, children, 1, <<>>, c), compactType, c)

\* synchronizeLayoutWithChildren for the container of the cols prop
synchronizeLayoutWithChildren(layoutBase, children, compactType) ==
  synchronizeCols(layoutBase, children, cols, compactType)

\* ------------------------------------------------- GridItem: pixels <-> grid
margin == <<MarginPx, MarginPx>>
\* containerPadding || margin
containerPadding == margin
\* the width prop: the container width in pixels
containerWidth == cols * ColWidthPx + margin[1] * (cols - 1) + containerPadding[1] * 2

calcColWidth ==
  (containerWidth - margin[1] * (cols - 1) - containerPadding[1] * 2) \div cols

\* the pointer moves by whole cells; a recorded position stays within one
\* cell of the container (the model's cap on the unbounded pixel plane)
DeltaX == {0 - (ColWidthPx + MarginPx), 0, ColWidthPx + MarginPx}
DeltaY == {0 - (rowHeight + MarginPx), 0, rowHeight + MarginPx}
InPlane(top, left) ==
  /\ left >= 0 - (ColWidthPx + MarginPx)
  /\ left <= containerWidth - (ColWidthPx + MarginPx)
  /\ top >= 0
  /\ top <= maxRows * (rowHeight + MarginPx)
\* the sizes a resize gesture reports
PxWidth == {k * (ColWidthPx + MarginPx) : k \in 0..cols}
PxHeight == {k * (rowHeight + MarginPx) : k \in 0..maxRows}

calcWidth(w, colWidth) == colWidth * w + Max(0, w - 1) * margin[1]

calcHeight(h) == rowHeight * h + Max(0, h - 1) * margin[2]

\* calcPosition of an item that is neither dragged nor resized
calcPosition(l) ==
  [width |-> calcWidth(l.w, calcColWidth),
   height |-> calcHeight(l.h),
   top |-> (rowHeight + margin[2]) * l.y + containerPadding[2],
   left |-> (calcColWidth + margin[1]) * l.x + containerPadding[1]]

\* a calcXY that does not cap x and y
calcXYUncapped(l, top, left) ==
  [x |-> Round(left - containerPadding[1], calcColWidth + margin[1]),
   y |-> Round(top - containerPadding[2], rowHeight + margin[2])]

calcXY(l, top, left) ==
  LET x == Round(left - containerPadding[1], calcColWidth + margin[1])
      y == Round(top - containerPadding[2], rowHeight + margin[2])
  IN [x |-> Max(Min(x, cols - l.w), 0), y |-> Max(Min(y, maxRows - l.h), 0)]

\* calcWH of a GridItem whose maxRows prop is rows
calcWHRows(l, height, width, rows) ==
  LET w == Round(width + margin[1], calcColWidth + margin[1])
      h == Round(height + margin[2], rowHeight + margin[2])
  IN [w |-> Max(Min(w, cols - l.x), 0), h |-> Max(Min(h, rows - l.y), 0)]

calcWH(l, height, width) == calcWHRows(l, height, width, maxRows)

\* an onResizeHandler that passes calcWH's w, h on without capping them
ResizeWHUncapped(l, height, width, rows) == calcWHRows(l, height, width, rows)

\* the w, h that onResizeHandler passes to the layout's handler
ResizeWHRows(l, height, width, rows) ==
  LET wh == calcWHRows(l, height, width, rows)
      w == Max(Min(wh.w, cols - l.x), 1)
  IN [w |-> Max(Min(w, l.maxW), l.minW), h |-> Max(Min(wh.h, l.maxH), l.minH)]

ResizeWH(l, height, width) == ResizeWHRows(l, height, width, maxRows)

\* ------------------------------------------------------------------ inputs
\* a can be dragged and resized, b is neither draggable nor resizable but
\* can be pushed, c is a static obstacle
LayoutOverlap ==
  <<[Item("a", 0, 0, 1, 1) EXCEPT !.maxH = 2],
    [Item("b", 0, 0, 1, 1) EXCEPT !.isDraggable = "false", !.isResizable = "false"],
    [Item("c", 1, 1, 1, 1) EXCEPT !.static = TRUE]>>
LayoutStatic ==
  <<[Item("a", 0, 0, 1, 2) EXCEPT !.minH = 2, !.maxH = 2],
    [Item("b", 1, 0, 1, 1) EXCEPT !.isDraggable = "false", !.isResizable = "false"],
    [Item("c", 1, 1, 1, 1) EXCEPT !.static = TRUE]>>
LayoutInputs == {LayoutOverlap, LayoutStatic}
ChildrenInputs == {<<"a", "b", "c">>, <<"b", "c">>}

\* ------------------------------------------------------------------- state
VARIABLES
  layout,            \* props.layout
  children,          \* props.children, as the sequence of their keys
  compactType,       \* props.compactType
  verticalCompact,   \* props.verticalCompact
  preventCollision,  \* props.preventCollision
  heap,              \* address -> the array of item objects stored there
  layoutState,       \* useState: address of the stored layout
  oldLayout,         \* useState: NullRef or address of the layout kept at Start
  oldDragItem,       \* useState
  oldResizeItem,     \* useState
  activeDrag,        \* useState: the placeholder
  mounted,           \* useState
  childrenKeys,      \* useState
  dragging,          \* GridItem useState, per item: Null or the pixel position
  resizing,          \* GridItem useState, per item: Null or the pixel size
  races,             \* how many times a child in a gesture was removed
  emitted,           \* the callbacks invoked by the last operation, in order
  lastOp,            \* the last operation delivered
  session,           \* the session whose Start was delivered and Stop not yet
  responsive         \* the ResponsiveReactGridLayout rendering the container,
                     \* when there is one: its props and its state

vars == <<layout, children, compactType, verticalCompact, preventCollision, heap,
          layoutState, oldLayout, oldDragItem, oldResizeItem, activeDrag, mounted,
          childrenKeys, dragging, resizing, races, emitted, lastOp, session,
          responsive>>

\* what the parent of the container decides
props == <<layout, children, compactType, verticalCompact, preventCollision, races,
           responsive>>

\* Legacy support for verticalCompact: false
fixCompactType == IF verticalCompact = FALSE THEN NullRef ELSE compactType

Other(a) == CHOOSE b \in Addr : b # a

\* the address a new array is allocated at, given the reference oldLayout keeps
NewAddr(r) == IF r = NullRef THEN "A" ELSE Other(r)

\* setLayoutState(nv) with oldLayout becoming r; cur is the array at layoutState
\* as this operation leaves it.  Arrays no reference reaches are dropped.
StoreLayout(nv, cur, r) ==
  /\ layoutState' = NewAddr(r)
  /\ oldLayout' = r
  /\ heap' = [a \in Addr |->
               IF a = NewAddr(r) THEN nv
               ELSE IF a = r THEN (IF a = layoutState THEN cur ELSE heap[a])
               ELSE <<>>]

\* a callback that is given the item as it is now for oldItem
NoteOfNewItem(cb, lay, oldItem, newItem, placeholder) ==
  [cb |-> cb, layout |-> lay, oldItem |-> newItem, placeholder |-> placeholder]

\* a callback invoked, with the layout, the oldItem and the placeholder it is
\* called with
Note(cb, lay, oldItem, newItem, placeholder) ==
  [cb |-> cb, layout |-> lay, oldItem |-> oldItem, placeholder |-> placeholder]

\* the array a reference leads to
Deref(r) == IF r = PropsLayout THEN layout ELSE heap[r]

\* onLayoutChange is called whether or not the layout has changed
handleLayoutAlwaysChanged(newLayoutState, oldLayoutState) ==
  <<Note("onLayoutChange", newLayoutState, Null, Null, Null)>>

\* the callbacks handleLayoutMaybeChanged invokes
handleLayoutMaybeChanged(newLayoutState, oldLayoutState) ==
  LET old == IF oldLayoutState # NullRef THEN Deref(oldLayoutState)
             ELSE heap[layoutState]
  IN IF old # newLayoutState
     THEN <<Note("onLayoutChange", newLayoutState, Null, Null, Null)>>
     ELSE <<>>

\* what lastOp records: the operation, its key, whether the key was in the
\* stored layout and whether it belonged to the session then active
Op(op, kind, i) ==
  [op |-> op, i |-> i,
   present |-> i # NullRef /\ IndexOf(heap[layoutState], i) # 0,
   inSession |-> session # Null /\ session.i = i /\ session.kind = kind]

\* the session after a gesture event that is not one of its own
Interleaved(kind, i) ==
  IF session # Null /\ (session.kind # kind \/ session.i # i)
  THEN [session EXCEPT !.clean = FALSE]
  ELSE session

Moved(kind, i) == Interleaved(kind, i)

Stopped(kind, i) ==
  IF session # Null /\ session.kind = kind /\ session.i = i
  THEN Null
  ELSE Interleaved(kind, i)

\* the first render of a container given one of the layouts and one of the
\* children sets
InitFrom(layouts, childrenSets) ==
  /\ layout \in layouts
  /\ children \in childrenSets
  /\ compactType \in {"vertical", "horizontal"}
  /\ verticalCompact \in BOOLEAN
  /\ verticalCompact \/ compactType = "vertical"
  /\ preventCollision \in BOOLEAN
  /\ layoutState = "A"
  /\ heap = [a \in Addr |->
              IF a = "A"
              THEN synchronizeLayoutWithChildren(layout, children, fixCompactType)
              ELSE <<>>]
  /\ oldLayout = NullRef
  /\ oldDragItem = Null
  /\ oldResizeItem = Null
  /\ activeDrag = Null
  /\ mounted = FALSE
  /\ childrenKeys = <<>>
  /\ dragging = [k \in Keys |-> Null]
  /\ resizing = [k \in Keys |-> Null]
  /\ races = 0
  /\ emitted = <<>>
  /\ lastOp = [op |-> "init", i |-> NullRef, present |-> FALSE, inSession |-> FALSE]
  /\ session = Null

\* a container rendered without a ResponsiveReactGridLayout
Init == InitFrom(LayoutInputs, ChildrenInputs) /\ responsive = Null

\* a setNewLayout that compacts the base without looking at the children
setNewLayoutUnsynchronized(newLayoutBase, ch, ct) ==
  LET newLayout == compact(newLayoutBase, ct)
  IN [layout |-> newLayout,
      emitted |-> handleLayoutMaybeChanged(newLayout, layoutState)]

\* setNewLayout(newLayoutBase) run by an effect of a render with the given
\* children and compaction type: the new stored layout and the callbacks
setNewLayout(newLayoutBase, ch, ct) ==
  LET newLayout == synchronizeLayoutWithChildren(newLayoutBase, ch, ct)
  IN [layout |-> newLayout,
      emitted |-> handleLayoutMaybeChanged(newLayout, layoutState)]

\* the three effects of the first render
Mount ==
  /\ ~mounted
  /\ mounted' = TRUE
  /\ LET e1 == handleLayoutMaybeChanged(heap[layoutState], PropsLayout)
         e2 == setNewLayout(layout, children, fixCompactType)
         changed == getChildrenKeys(children) # childrenKeys
         e3 == setNewLayout(layout, children, fixCompactType)
     IN /\ StoreLayout(IF changed THEN e3.layout ELSE e2.layout, heap[layoutState],
                       oldLayout)
        /\ emitted' = e1 \o e2.emitted \o (IF changed THEN e3.emitted ELSE <<>>)
        /\ childrenKeys' = IF changed THEN getChildrenKeys(children) ELSE childrenKeys
  /\ lastOp' = Op("mount", NullRef, NullRef)
  /\ session' = session
  /\ UNCHANGED <<props, oldDragItem, oldResizeItem, activeDrag, dragging, resizing>>

\* the items in a gesture; there is one pointer, so a gesture starts when
\* no other is going on
Gestures == {k \in Keys : dragging[k] # Null \/ resizing[k] # Null}

\* the parent passes a new layout or compaction type between gestures only,
\* and the behaviours explored pass none after a child in a gesture was removed
Idle == Gestures = {} /\ races = 0

\* the layout prop is replaced: effect on [layout, compactType]
SetLayoutProp(nl) ==
  /\ mounted
  /\ Idle
  /\ layout' = nl
  /\ LET e == setNewLayout(nl, children, fixCompactType)
     IN /\ StoreLayout(e.layout, heap[layoutState], oldLayout)
        /\ emitted' = e.emitted
  /\ lastOp' = Op("setLayout", NullRef, NullRef)
  /\ session' = session
  /\ UNCHANGED <<children, compactType, verticalCompact, preventCollision, races,
                 responsive,
                 oldDragItem, oldResizeItem, activeDrag, mounted, childrenKeys,
                 dragging, resizing>>

\* the compactType prop changes: effect on [layout, compactType]
SetCompactType(ct) ==
  /\ mounted
  /\ Idle
  /\ verticalCompact
  /\ ct # compactType
  /\ compactType' = ct
  /\ LET e == setNewLayout(layout, children,
                           IF verticalCompact = FALSE THEN NullRef ELSE ct)
     IN /\ StoreLayout(e.layout, heap[layoutState], oldLayout)
        /\ emitted' = e.emitted
  /\ lastOp' = Op("setCompactType", NullRef, NullRef)
  /\ session' = session
  /\ UNCHANGED <<layout, children, verticalCompact, preventCollision, races,
                 responsive,
                 oldDragItem, oldResizeItem, activeDrag, mounted, childrenKeys,
                 dragging, resizing>>

\* the children change: effect without dependencies
SetChildren(ch) ==
  /\ mounted
  /\ ch # children
  /\ children' = ch
  /\ LET racing == \E k \in Gestures : \A m \in 1..Len(ch) : ch[m] # k
     IN /\ racing => races < MaxRaces
        /\ races' = IF racing THEN races + 1 ELSE races
  /\ IF getChildrenKeys(ch) # childrenKeys
     THEN LET e == setNewLayout(layout, ch, fixCompactType)
          IN /\ StoreLayout(e.layout, heap[layoutState], oldLayout)
             /\ emitted' = e.emitted
             /\ childrenKeys' = getChildrenKeys(ch)
     ELSE /\ emitted' = <<>>
          /\ UNCHANGED <<heap, layoutState, oldLayout, childrenKeys>>
  /\ lastOp' = Op("setChildren", NullRef, NullRef)
  /\ session' = session
  \* the GridItem of a removed child is unmounted and its state is lost
  /\ dragging' = [k \in Keys |-> IF \E m \in 1..Len(ch) : ch[m] = k
                                  THEN dragging[k] ELSE Null]
  /\ resizing' = [k \in Keys |-> IF \E m \in 1..Len(ch) : ch[m] = k
                                  THEN resizing[k] ELSE Null]
  /\ UNCHANGED <<layout, compactType, verticalCompact, preventCollision,
                 responsive, oldDragItem, oldResizeItem, activeDrag, mounted>>

\* ------------------------------------------------------------ drag handlers
\* a placeholder built without the key of the item
PlaceholderWithoutKey(l, i, isPlaceholder, isStatic) ==
  [w |-> l.w, h |-> l.h, x |-> l.x, y |-> l.y, i |-> NullRef,
   placeholder |-> isPlaceholder, static |-> isStatic]

\* the placeholder a Move builds (display only)
Placeholder(l, i, isPlaceholder, isStatic) ==
  [w |-> l.w, h |-> l.h, x |-> l.x, y |-> l.y, i |-> i,
   placeholder |-> isPlaceholder, static |-> isStatic]

\* an early return: nothing is set and nothing is called
Return(op, kind, i, sess) ==
  /\ emitted' = <<>>
  /\ lastOp' = Op(op, kind, i)
  /\ session' = sess
  /\ UNCHANGED <<props, heap, layoutState, oldLayout, oldDragItem, oldResizeItem,
                 activeDrag, mounted, childrenKeys>>

\* a Start handler that does not record the layout
ShareLayoutForgotten ==
  /\ oldLayout' = oldLayout
  /\ heap' = heap
  /\ UNCHANGED layoutState

\* setOldLayout(layoutState): oldLayout refers to the stored array itself
ShareLayout ==
  /\ oldLayout' = layoutState
  /\ heap' = [a \in Addr |-> IF a = layoutState THEN heap[a] ELSE <<>>]
  /\ UNCHANGED layoutState

\* a handleDrag that stores the moved layout without compacting it
DragStoredUncompacted(modifiedLayout) == modifiedLayout

\* the layout handleDrag passes to setLayoutState
DragStored(modifiedLayout) == compact(modifiedLayout, fixCompactType)

\* a moveElement call that passes false for preventCollision
DragMoveIgnoringPrevent(lay, l, x, y) ==
  moveElement(lay, l, x, y, TRUE, FALSE, fixCompactType)

\* the moveElement call of handleDrag and handleDragStop
DragMove(lay, l, x, y) ==
  moveElement(lay, l, x, y, TRUE, preventCollision, fixCompactType)

\* a Start handler that also reports a layout change
StartCallbacksWithChange(cb, lay, l) ==
  <<Note(cb, lay, l, l, Null), Note("onLayoutChange", lay, Null, Null, Null)>>

\* the callback of a Start handler
StartCallbacks(cb, lay, l) == <<Note(cb, lay, l, l, Null)>>

\* a Stop handler that leaves oldLayout as it is
StopKeepsOldLayout == oldLayout

\* setOldLayout(null) of the Stop handlers
StopOldLayout == NullRef

handleDragStart(i, x, y) ==
  LET l == getLayoutItem(heap[layoutState], i)
  IN /\ mounted
     /\ IF l = Null THEN Return("handleDragStart", "drag", i, Interleaved("drag", i))
        ELSE /\ oldDragItem' = cloneLayoutItem(l)
             /\ ShareLayout
             /\ emitted' = StartCallbacks("onDragStart", heap[layoutState], l)
             /\ lastOp' = Op("handleDragStart", "drag", i)
             /\ session' = [kind |-> "drag", i |-> i, layout |-> heap[layoutState],
                            clean |-> TRUE]
             /\ UNCHANGED <<props, oldResizeItem, activeDrag, mounted, childrenKeys>>

handleDrag(i, x, y) ==
  LET l == getLayoutItem(heap[layoutState], i)
      placeholder == Placeholder(l, i, TRUE, FALSE)
      modifiedLayout == DragMove(heap[layoutState], l, x, y)
  IN /\ mounted
     /\ IF l = Null THEN Return("handleDrag", "drag", i, Moved("drag", i))
        ELSE /\ emitted' = <<Note("onDrag", modifiedLayout, oldDragItem, l, placeholder)>>
             /\ StoreLayout(DragStored(modifiedLayout), heap[layoutState], oldLayout)
             /\ activeDrag' = placeholder
             /\ lastOp' = Op("handleDrag", "drag", i)
             /\ session' = Moved("drag", i)
             /\ UNCHANGED <<props, oldDragItem, oldResizeItem, mounted, childrenKeys>>

handleDragStop(i, x, y) ==
  LET l == getLayoutItem(heap[layoutState], i)
      modifiedLayout == DragMove(heap[layoutState], l, x, y)
      newLayout == compact(modifiedLayout, fixCompactType)
  IN /\ mounted
     /\ IF l = Null THEN Return("handleDragStop", "drag", i, Stopped("drag", i))
        ELSE /\ emitted' = <<Note("onDragStop", modifiedLayout, oldDragItem, l, Null)>>
                  \o handleLayoutMaybeChanged(newLayout, oldLayout)
             /\ activeDrag' = Null
             /\ StoreLayout(newLayout, heap[layoutState], StopOldLayout)
             /\ oldDragItem' = Null
             /\ lastOp' = Op("handleDragStop", "drag", i)
             /\ session' = Stopped("drag", i)
             /\ UNCHANGED <<props, oldResizeItem, mounted, childrenKeys>>

\* ---------------------------------------------------------- resize handlers
\* the least x (or y) of the colliding items beyond the resized item's own
LeastX(collisions, l) ==
  LET S == {collisions[n].x : n \in 1..Len(collisions)} \cap {v \in Int : v > l.x}
  IN IF S = {} THEN Infinity ELSE CHOOSE v \in S : \A u \in S : v <= u

LeastY(collisions, l) ==
  LET S == {collisions[n].y : n \in 1..Len(collisions)} \cap {v \in Int : v > l.y}
  IN IF S = {} THEN Infinity ELSE CHOOSE v \in S : \A u \in S : v <= u

\* a handleResize that remembers the shrunk size as well
ResizedItemRemembersShrunk(lay, l, w, h) ==
  LET collisions == SelectSeq(getAllCollisions(lay, [l EXCEPT !.w = w, !.h = h]),
                              LAMBDA o : o.i # l.i)
      leastX == LeastX(collisions, l)
      leastY == LeastY(collisions, l)
      nw == IF leastX # Infinity THEN leastX - l.x ELSE l.w
      nh == IF leastY # Infinity THEN leastY - l.y ELSE l.h
  IN IF preventCollision /\ Len(collisions) > 0
     THEN [l EXCEPT !.w = nw, !.h = nh, !.persistentW = nw, !.persistentH = nh]
     ELSE [l EXCEPT !.w = w, !.h = h, !.persistentW = w, !.persistentH = h]

\* the item object l after handleResize has written to it
ResizedItem(lay, l, w, h) ==
  LET collisions == SelectSeq(getAllCollisions(lay, [l EXCEPT !.w = w, !.h = h]),
                              LAMBDA o : o.i # l.i)
      hasCollisions == preventCollision /\ Len(collisions) > 0
      leastX == LeastX(collisions, l)
      leastY == LeastY(collisions, l)
  IN IF hasCollisions
     THEN [l EXCEPT !.w = IF leastX # Infinity THEN leastX - l.x ELSE l.w,
                    !.h = IF leastY # Infinity THEN leastY - l.y ELSE l.h]
     ELSE [l EXCEPT !.w = w, !.h = h, !.persistentW = w, !.persistentH = h]

\* a handleResize that stores the written layout without compacting it
ResizeStoredUncompacted(written) == written

\* the layout handleResize passes to setLayoutState
ResizeStored(written) == compact(written, fixCompactType)

handleResizeStart(i, w, h) ==
  LET l == getLayoutItem(heap[layoutState], i)
  IN /\ mounted
     /\ IF l = Null THEN Return("handleResizeStart", "resize", i, Interleaved("resize", i))
        ELSE /\ oldResizeItem' = cloneLayoutItem(l)
             /\ ShareLayout
             /\ emitted' = StartCallbacks("onResizeStart", heap[layoutState], l)
             /\ lastOp' = Op("handleResizeStart", "resize", i)
             /\ session' = [kind |-> "resize", i |-> i, layout |-> heap[layoutState],
                            clean |-> TRUE]
             /\ UNCHANGED <<props, oldDragItem, activeDrag, mounted, childrenKeys>>

handleResize(i, w, h) ==
  LET l == getLayoutItem(heap[layoutState], i)
      resized == ResizedItem(heap[layoutState], l, w, h)
      \* l is an object of the stored array: the array as the writes leave it
      written == SetItem(heap[layoutState], resized)
      placeholder == Placeholder(resized, i, FALSE, TRUE)
  IN /\ mounted
     /\ IF l = Null THEN Return("handleResize", "resize", i, Moved("resize", i))
        ELSE /\ emitted' = <<Note("onResize", written, oldResizeItem, resized, placeholder)>>
             /\ StoreLayout(ResizeStored(written), written, oldLayout)
             /\ activeDrag' = placeholder
             /\ lastOp' = Op("handleResize", "resize", i)
             /\ session' = Moved("resize", i)
             /\ UNCHANGED <<props, oldDragItem, oldResizeItem, mounted, childrenKeys>>

handleResizeStop(i, w, h) ==
  LET l == getLayoutItem(heap[layoutState], i)
      newLayout == compact(heap[layoutState], fixCompactType)
  IN /\ mounted
     /\ emitted' = <<Note("onResizeStop", heap[layoutState], oldResizeItem, l, Null)>>
          \o handleLayoutMaybeChanged(newLayout, oldLayout)
     /\ activeDrag' = Null
     /\ StoreLayout(newLayout, heap[layoutState], StopOldLayout)
     /\ oldResizeItem' = Null
     /\ lastOp' = Op("handleResizeStop", "resize", i)
     /\ session' = Stopped("resize", i)
     /\ UNCHANGED <<props, oldDragItem, mounted, childrenKeys>>

\* ------------------------------------------ GridItem: delivery of the events
\* processGridItem: the flags of the rendered item (container defaults true)
isDraggable == TRUE
isResizable == TRUE
\* processGridItem: the flag passed to GridItem, from the item's static, the
\* container's flag and the item's own flag
ItemFlag(static, containerFlag, itemFlag) ==
  ~static /\ containerFlag /\ (itemFlag = "true" \/ itemFlag = Unset)
\* processGridItem: bounded
bounded(draggableFlag, containerFlag, itemFlag) ==
  draggableFlag /\ containerFlag /\ (itemFlag = "true" \/ itemFlag = Unset)
\* GridItem: `data-grid` isResizable can override any other props
GridItemResizable(dataGridIsResizable, isResizableProp) ==
  IF dataGridIsResizable \in {"true", "false"}
  THEN dataGridIsResizable = "true"
  ELSE isResizableProp

draggable(l) == ItemFlag(l.static, isDraggable, l.isDraggable)
\* the children of the model carry no data-grid
resizable(l) ==
  GridItemResizable(Unset, ItemFlag(l.static, isResizable, l.isResizable))

\* the items GridItems are rendered for
Rendered == {n \in 1..Len(heap[layoutState]) : heap[layoutState][n].i \in
                {children[m] : m \in 1..Len(children)}}


onDragStart(l) ==
  LET pos == calcPosition(l)
      newPosition == [top |-> pos.top, left |-> pos.left]
      xy == calcXY(l, newPosition.top, newPosition.left)
  IN /\ draggable(l)
     /\ dragging[l.i] = Null /\ resizing[l.i] = Null
     /\ Gestures = {}
     /\ dragging' = [dragging EXCEPT ![l.i] = newPosition]
     /\ handleDragStart(l.i, xy.x, xy.y)
     /\ UNCHANGED resizing

\* the container's isBounded prop (its default) and the item's flag
isBounded == FALSE
itemBounded(l) == bounded(draggable(l), isBounded, Unset)

\* an onDrag that never looks at isBounded
DragPositionUnbounded(l, drag, deltaX, deltaY, boundedFlag, offsetParent) ==
  [top |-> drag.top + deltaY, left |-> drag.left + deltaX]

\* onDragHandler, case "onDrag": the position passed to setDragging, for the
\* recorded position drag and a node whose offsetParent is Null or has a
\* clientHeight
DragPosition(l, drag, deltaX, deltaY, boundedFlag, offsetParent) ==
  LET top == drag.top + deltaY
      left == drag.left + deltaX
      bottomBoundary == offsetParent.clientHeight - calcHeight(l.h)
      rightBoundary == containerWidth - calcWidth(l.w, calcColWidth)
      cappedTop == IF top > bottomBoundary THEN bottomBoundary ELSE top
      cappedLeft == IF left > rightBoundary THEN rightBoundary ELSE left
  IN IF boundedFlag /\ offsetParent # Null
     THEN [top |-> IF cappedTop < 0 THEN 0 ELSE cappedTop,
           left |-> IF cappedLeft < 0 THEN 0 ELSE cappedLeft]
     ELSE [top |-> top, left |-> left]

onDrag(l, deltaX, deltaY) ==
  LET newPosition == DragPosition(l, dragging[l.i], deltaX, deltaY,
                                  itemBounded(l), Null)
      xy == calcXY(l, newPosition.top, newPosition.left)
  IN /\ draggable(l)
     /\ dragging[l.i] # Null
     /\ InPlane(newPosition.top, newPosition.left)
     /\ dragging' = [dragging EXCEPT ![l.i] = newPosition]
     /\ handleDrag(l.i, xy.x, xy.y)
     /\ UNCHANGED resizing

onDragStop(l) ==
  LET newPosition == dragging[l.i]
      xy == calcXY(l, newPosition.top, newPosition.left)
  IN /\ draggable(l)
     /\ dragging[l.i] # Null
     /\ dragging' = [dragging EXCEPT ![l.i] = Null]
     /\ handleDragStop(l.i, xy.x, xy.y)
     /\ UNCHANGED resizing

onResizeStart(l) ==
  LET pos == calcPosition(l)
      size == [width |-> pos.width, height |-> pos.height]
      wh == ResizeWH(l, size.height, size.width)
  IN /\ resizable(l)
     /\ dragging[l.i] = Null /\ resizing[l.i] = Null
     /\ Gestures = {}
     /\ resizing' = [resizing EXCEPT ![l.i] = size]
     /\ handleResizeStart(l.i, wh.w, wh.h)
     /\ UNCHANGED dragging

onResize(l, height, width) ==
  LET size == [width |-> width, height |-> height]
      wh == ResizeWH(l, size.height, size.width)
  IN /\ resizable(l)
     /\ resizing[l.i] # Null
     /\ resizing' = [resizing EXCEPT ![l.i] = size]
     /\ handleResize(l.i, wh.w, wh.h)
     /\ UNCHANGED dragging

\* an onResizeStop that keeps the size in the state
onResizeStopKeepsSize(l) ==
  LET size == resizing[l.i]
      wh == ResizeWH(l, size.height, size.width)
  IN /\ resizable(l)
     /\ resizing[l.i] # Null
     /\ resizing' = [resizing EXCEPT ![l.i] = size]
     /\ handleResizeStop(l.i, wh.w, wh.h)
     /\ UNCHANGED dragging

onResizeStop(l) ==
  LET size == resizing[l.i]
      wh == ResizeWH(l, size.height, size.width)
  IN /\ resizable(l)
     /\ resizing[l.i] # Null
     /\ resizing' = [resizing EXCEPT ![l.i] = Null]
     /\ handleResizeStop(l.i, wh.w, wh.h)
     /\ UNCHANGED dragging

\* a gesture event that races the removal of its item: the handler of an
\* earlier render is called with a key the stored layout no longer has
StaleEvent(i, handlerName) ==
  /\ IndexOf(heap[layoutState], i) = 0
  /\ handlerName \in {"onDragStart", "onResizeStart"}
       \/ (session # Null /\ session.i = i)
  /\ \/ handlerName = "onDragStart" /\ handleDragStart(i, 0, 0)
     \/ handlerName = "onDrag" /\ session.kind = "drag" /\ handleDrag(i, 0, 0)
     \/ handlerName = "onDragStop" /\ session.kind = "drag" /\ handleDragStop(i, 0, 0)
     \/ handlerName = "onResizeStart" /\ handleResizeStart(i, 1, 1)
     \/ handlerName = "onResize" /\ session.kind = "resize" /\ handleResize(i, 1, 1)
     \/ handlerName = "onResizeStop" /\ session.kind = "resize"
          /\ handleResizeStop(i, 1, 1)
  /\ UNCHANGED <<dragging, resizing>>

HandlerNames == {"onDragStart", "onDrag", "onDragStop",
                 "onResizeStart", "onResize", "onResizeStop"}

Next ==
  \/ Mount
  \/ \E nl \in LayoutInputs : SetLayoutProp(nl)
  \/ \E ct \in {"vertical", "horizontal"} : SetCompactType(ct)
  \/ \E ch \in ChildrenInputs : SetChildren(ch)
  \/ \E n \in Rendered : onDragStart(heap[layoutState][n])
  \/ \E n \in Rendered, dx \in DeltaX, dy \in DeltaY : onDrag(heap[layoutState][n], dx, dy)
  \/ \E n \in Rendered : onDragStop(heap[layoutState][n])
  \/ \E n \in Rendered : onResizeStart(heap[layoutState][n])
  \/ \E n \in Rendered, height \in PxHeight, width \in PxWidth :
       onResize(heap[layoutState][n], height, width)
  \/ \E n \in Rendered : onResizeStop(heap[layoutState][n])
  \/ \E i \in Keys, name \in HandlerNames : StaleEvent(i, name)

Spec == Init /\ [][Next]_vars

\* ------------------------------------------- GridItem functions on their own
\* The conversions and flags of one GridItem, applied to every input of a
\* bounded domain; lastOp records the call and what it returned.
HalfCell == (ColWidthPx + MarginPx) \div 2
PxPositions == {k * HalfCell : k \in (0 - 3)..(2 * cols + 3)}
PxSizes == {k * HalfCell : k \in 0..(2 * cols + 3)}
Limits == {1, 2, Infinity}
TriState == {"true", "false", Unset}

\* onDragHandler: const { x, y } = calcXY(newPosition.top, newPosition.left)
CallCalcXY(w, h, top, left) ==
  /\ lastOp.op = "init"
  /\ lastOp' = [op |-> "calcXY", w |-> w, h |-> h, top |-> top, left |-> left,
                out |-> calcXY(Item("a", 0, 0, w, h), top, left)]
  /\ UNCHANGED <<props, heap, layoutState, oldLayout, oldDragItem, oldResizeItem,
                 activeDrag, mounted, childrenKeys, dragging, resizing, emitted,
                 session>>

\* onResizeHandler: the w, h handed to the layout's handler
CallOnResizeHandler(l, height, width) ==
  /\ lastOp.op = "init"
  /\ lastOp' = [op |-> "onResizeHandler", l |-> l, height |-> height,
                width |-> width, wh |-> calcWH(l, height, width),
                out |-> ResizeWH(l, height, width)]
  /\ UNCHANGED <<props, heap, layoutState, oldLayout, oldDragItem, oldResizeItem,
                 activeDrag, mounted, childrenKeys, dragging, resizing, emitted,
                 session>>

\* processGridItem and the render of GridItem: the flags in effect
CallProcessGridItem(static, container, item, dataGridIsResizable) ==
  LET d == ItemFlag(static, container.isDraggable, item.isDraggable)
      r == ItemFlag(static, container.isResizable, item.isResizable)
  IN /\ lastOp.op = "init"
     /\ lastOp' = [op |-> "processGridItem", static |-> static,
                   container |-> container, item |-> item,
                   dataGrid |-> dataGridIsResizable,
                   out |-> [draggable |-> d,
                            resizable |-> GridItemResizable(dataGridIsResizable, r),
                            bounded |-> bounded(d, container.isBounded,
                                                item.isBounded)]]
     /\ UNCHANGED <<props, heap, layoutState, oldLayout, oldDragItem,
                    oldResizeItem, activeDrag, mounted, childrenKeys, dragging,
                    resizing, emitted, session>>

NextGridItem ==
  \/ \E w \in 1..(cols + 1), h \in 1..maxRows, top \in PxPositions,
        left \in PxPositions : CallCalcXY(w, h, top, left)
  \/ \E x \in 0..(cols - 1), y \in 0..(maxRows - 1), minW \in 1..2, maxW \in Limits,
        minH \in 1..2, maxH \in Limits, height \in PxSizes, width \in PxSizes :
       CallOnResizeHandler([Item("a", x, y, 1, 1) EXCEPT !.minW = minW,
                              !.maxW = maxW, !.minH = minH, !.maxH = maxH],
                           height, width)
  \/ \E static \in BOOLEAN,
        container \in [isDraggable : BOOLEAN, isResizable : BOOLEAN,
                       isBounded : BOOLEAN],
        item \in [isDraggable : TriState, isResizable : TriState,
                  isBounded : TriState],
        dataGridIsResizable \in TriState :
       CallProcessGridItem(static, container, item, dataGridIsResizable)

\* one container, before any of its operations
InitGridItem ==
  /\ Init
  /\ layout = LayoutStatic
  /\ children = KeyOrder
  /\ verticalCompact /\ compactType = "vertical" /\ ~preventCollision

SpecGridItem == InitGridItem /\ [][NextGridItem]_vars

\* ---------------------------------------------------- compact on its own
\* compact applied to every layout of a bounded domain, some of them with
\* items that overlap or reach beyond the last column
CompactInputs ==
  {<<Item("a", ax, ay, aw, ah), Item("b", bx, by, bw, 1),
     [Item("c", cx, cy, 1, 1) EXCEPT !.static = cs]>> :
     ax \in 0..cols, ay \in 0..maxRows, aw \in 1..cols, ah \in 1..maxRows,
     bx \in 0..cols, by \in 0..maxRows, bw \in 1..cols,
     cx \in 0..(cols - 1), cy \in 0..(maxRows - 1), cs \in BOOLEAN}

CallCompact(lay, ct) ==
  /\ lastOp.op = "init"
  /\ lastOp' = [op |-> "compact", layout |-> lay, compactType |-> ct,
                out |-> compact(lay, ct),
                again |-> compact(compact(lay, ct), ct)]
  /\ UNCHANGED <<props, heap, layoutState, oldLayout, oldDragItem, oldResizeItem,
                 activeDrag, mounted, childrenKeys, dragging, resizing, emitted,
                 session>>

NextCompact ==
  \E lay \in CompactInputs, ct \in {"vertical", "horizontal"} : CallCompact(lay, ct)

SpecCompact == InitGridItem /\ [][NextCompact]_vars

\* ------------------------------------------ GridItem: a bounded drag Move
\* onDragHandler("onDrag") of one GridItem applied to every recorded
\* position, delta, isBounded flag and offset parent of a bounded domain
DragPositions == {k * HalfCell : k \in (0 - 1)..(2 * cols + 1)}
\* clientHeight of the offset parent: lower than an item, and one and two
\* rows high
ParentHeights == {rowHeight \div 2, rowHeight, 2 * rowHeight + MarginPx}
OffsetParents == {Null} \cup {[clientHeight |-> n] : n \in ParentHeights}

CallOnDrag(w, h, drag, deltaX, deltaY, boundedFlag, offsetParent) ==
  /\ lastOp.op = "init"
  /\ lastOp' = [op |-> "onDrag", w |-> w, h |-> h, dragging |-> drag,
                deltaX |-> deltaX, deltaY |-> deltaY, isBounded |-> boundedFlag,
                offsetParent |-> offsetParent,
                out |-> DragPosition(Item("a", 0, 0, w, h), drag, deltaX, deltaY,
                                     boundedFlag, offsetParent)]
  /\ UNCHANGED <<props, heap, layoutState, oldLayout, oldDragItem, oldResizeItem,
                 activeDrag, mounted, childrenKeys, dragging, resizing, emitted,
                 session>>

NextBounded ==
  \E w \in {1, cols + 1}, h \in 1..maxRows, top \in DragPositions,
     left \in DragPositions, deltaX \in DeltaX, deltaY \in DeltaY,
     boundedFlag \in BOOLEAN, offsetParent \in OffsetParents :
    CallOnDrag(w, h, [top |-> top, left |-> left], deltaX, deltaY, boundedFlag,
               offsetParent)

SpecBounded == InitGridItem /\ [][NextBounded]_vars

\* ------------------------------------- GridItem: events in any order
\* The events of DraggableCore and Resizable delivered to the GridItems of
\* one container in any order, with or without an offset parent of the node.

\* the handler of the layout is called before the drag state is looked at
RejectedAfterHandler(i, handlerName) ==
  /\ \/ handlerName = "onDrag" /\ handleDrag(i, 0, 0)
     \/ handlerName = "onDragStop" /\ handleDragStop(i, 0, 0)
  /\ UNCHANGED <<dragging, resizing>>

\* throw new Error("onDrag called before onDragStart."), and the one of
\* onDragStop: nothing has been set and nothing has been called
Rejected(i, handlerName) ==
  /\ emitted' = <<>>
  /\ lastOp' = [op |-> handlerName, i |-> i, thrown |-> TRUE]
  /\ UNCHANGED <<props, heap, layoutState, oldLayout, oldDragItem, oldResizeItem,
                 activeDrag, mounted, childrenKeys, dragging, resizing, session>>

\* onDragStart with a node that has no offsetParent: return
onDragStartAbandoned(l) ==
  /\ mounted
  /\ draggable(l)
  /\ dragging[l.i] = Null /\ resizing[l.i] = Null
  /\ Gestures = {}
  /\ emitted' = <<>>
  /\ lastOp' = [op |-> "onDragStart", i |-> l.i, thrown |-> FALSE]
  /\ UNCHANGED <<props, heap, layoutState, oldLayout, oldDragItem, oldResizeItem,
                 activeDrag, mounted, childrenKeys, dragging, resizing, session>>

\* onDrag or onDragStop while dragging is null
onDragBeforeStart(l, handlerName) ==
  /\ mounted
  /\ draggable(l)
  /\ handlerName \in {"onDrag", "onDragStop"}
  /\ dragging[l.i] = Null
  /\ Rejected(l.i, handlerName)

\* onResize or onResizeStop while resizing is null: onResizeHandler does not
\* look at the state
onResizeBeforeStart(l, height, width, handlerName) ==
  LET size == [width |-> width, height |-> height]
      wh == ResizeWH(l, size.height, size.width)
  IN /\ mounted
     /\ resizable(l)
     /\ dragging[l.i] = Null /\ resizing[l.i] = Null
     /\ Gestures = {}
     /\ \/ /\ handlerName = "onResize"
           /\ resizing' = [resizing EXCEPT ![l.i] = size]
           /\ handleResize(l.i, wh.w, wh.h)
        \/ /\ handlerName = "onResizeStop"
           /\ resizing' = [resizing EXCEPT ![l.i] = Null]
           /\ handleResizeStop(l.i, wh.w, wh.h)
     /\ UNCHANGED dragging

NextEvents ==
  \/ Mount
  \/ \E n \in Rendered : onDragStart(heap[layoutState][n])
  \/ \E n \in Rendered : onDragStartAbandoned(heap[layoutState][n])
  \/ \E n \in Rendered, dx \in DeltaX, dy \in DeltaY : onDrag(heap[layoutState][n], dx, dy)
  \/ \E n \in Rendered : onDragStop(heap[layoutState][n])
  \/ \E n \in Rendered, name \in {"onDrag", "onDragStop"} :
       onDragBeforeStart(heap[layoutState][n], name)
  \/ \E n \in Rendered : onResizeStart(heap[layoutState][n])
  \/ \E n \in Rendered, height \in PxHeight, width \in PxWidth :
       onResize(heap[layoutState][n], height, width)
  \/ \E n \in Rendered : onResizeStop(heap[layoutState][n])
  \/ \E n \in Rendered, height \in PxHeight, width \in PxWidth,
        name \in {"onResize", "onResizeStop"} :
       onResizeBeforeStart(heap[layoutState][n], height, width, name)

\* the container with all its children
InitEvents == Init /\ children = KeyOrder

SpecEvents == InitEvents /\ [][NextEvents]_vars

\* ------------------------------------------- ResponsiveReactGridLayout
\* The class component that renders the container with the layout and the
\* column count of the breakpoint its width falls in.  responsive holds its
\* props, its state and whether an error was thrown out of a lifecycle method.
MaxWidth == 4
Widths == 0..MaxWidth

\* breakpoints prop: name -> minimum width;  cols prop: name -> columns
BreakpointsInputs == {[lg |-> 3, sm |-> 1], [lg |-> 3, md |-> 2, sm |-> 1]}
ColsInputs ==
  {[lg |-> cols, md |-> cols, sm |-> 1], [lg |-> 1, md |-> 1, sm |-> 1],
   [lg |-> cols, sm |-> 1]}

\* a and b below each other, a as wide as the widest container
LayoutWide == <<Item("a", 0, 0, cols, 1), Item("b", 0, 1, 1, 1)>>
LayoutNarrow == <<Item("a", 0, 0, 1, 1), Item("b", 0, 1, 1, 1)>>

\* layouts prop: name -> layout; {} is the default
EmptyObject == [k \in {} |-> <<>>]
LayoutsInputs ==
  {EmptyObject, [lg |-> LayoutWide], [sm |-> LayoutNarrow],
   [lg |-> LayoutWide, sm |-> LayoutNarrow]}

\* an Error thrown instead of a value returned
Thrown == [thrown |-> TRUE]

\* key in obj: own keys and the keys every object inherits
ObjectPrototypeKeys == {"constructor"}
In(key, obj) == key \in DOMAIN obj \cup ObjectPrototypeKeys

\* obj[key] = value
Put(obj, key, value) ==
  [k \in DOMAIN obj \cup {key} |-> IF k = key THEN value ELSE obj[k]]

\* a reference to the object of the layouts prop, and to a new object
PropsLayouts == "props.layouts"
NewObject == "new object"

\* modifiedLayouts = layouts: the same object
SpreadAliased(obj) == [ref |-> PropsLayouts, fields |-> obj]

\* { ...layouts }: a new object with the same own keys
Spread(obj) == [ref |-> NewObject, fields |-> obj]

\* o[key] = value, written to the object o refers to
Assign(o, key, value) == [o EXCEPT !.fields = Put(o.fields, key, value)]

cloneLayout(lay) == [n \in 1..Len(lay) |-> cloneLayoutItem(lay[n])]

\* the breakpoint with the largest threshold <= width, and the one with the
\* smallest threshold when width is below them all
getBreakpointFromWidth(breakpoints, width) ==
  LET fit == {b \in DOMAIN breakpoints : breakpoints[b] <= width}
  IN IF fit = {}
     THEN CHOOSE b \in DOMAIN breakpoints :
            \A o \in DOMAIN breakpoints : breakpoints[b] <= breakpoints[o]
     ELSE CHOOSE b \in fit : \A o \in fit : breakpoints[b] >= breakpoints[o]

\* direct lookup; a name absent from the map is an error
getColsFromBreakpoint(breakpoint, colsMap) ==
  IF breakpoint \in DOMAIN colsMap THEN [cols |-> colsMap[breakpoint]] ELSE Thrown

\* w in [1, c] and x + w <= c.  The ratio newCols / oldCols of the derivation
\* needs the columns of the source breakpoint, which findOrGenerate is not
\* given: x and w are kept and clamped.
FitCols(l, c) ==
  LET w == Max(1, Min(l.w, c))
  IN [l EXCEPT !.w = w, !.x = Max(0, Min(l.x, c - w))]

findOrGenerateResponsiveLayout(layouts, breakpoints, breakpoint, lastBreakpoint, c, ct) ==
  IF breakpoint \in DOMAIN layouts
  THEN compactCols(cloneLayout(layouts[breakpoint]), ct, c)
  ELSE LET above == {b \in DOMAIN breakpoints \cap DOMAIN layouts :
                       breakpoints[b] > breakpoints[breakpoint]}
           source ==
             IF lastBreakpoint \in DOMAIN layouts THEN layouts[lastBreakpoint]
             ELSE IF above # {}
             THEN layouts[CHOOSE b \in above :
                            \A o \in above : breakpoints[b] <= breakpoints[o]]
             ELSE <<>>
       IN compactCols([n \in 1..Len(source) |-> FitCols(source[n], c)], ct, c)

\* duplicate keys and negative positions fail the validation
validateLayout(lay) ==
  IF \/ \E n, m \in 1..Len(lay) : n # m /\ lay[n].i = lay[m].i
     \/ \E n \in 1..Len(lay) : lay[n].x < 0 \/ lay[n].y < 0
  THEN Thrown ELSE [valid |-> TRUE]

\* propTypes.layouts(props, "layouts"); value is props.layouts
LayoutsPropType(value, breakpoints) ==
  IF value.type # "[object Object]" THEN Thrown
  ELSE IF \E key \in DOMAIN value.fields :
            \/ ~In(key, breakpoints)
            \/ validateLayout(value.fields[key]) = Thrown
  THEN Thrown ELSE [valid |-> TRUE]

\* state.layouts before getDerivedStateFromProps has run
Undefined == [defined |-> FALSE, value |-> EmptyObject]
Defined(v) == [defined |-> TRUE, value |-> v]

generateInitialState(P) ==
  LET breakpoint == getBreakpointFromWidth(P.breakpoints, P.width)
      colNo == getColsFromBreakpoint(breakpoint, P.cols)
      newCompactType == IF verticalCompact = FALSE THEN NullRef ELSE compactType
  IN IF colNo = Thrown THEN Thrown
     ELSE [layout |-> findOrGenerateResponsiveLayout(P.layouts, P.breakpoints,
                        breakpoint, breakpoint, colNo.cols, newCompactType),
           breakpoint |-> breakpoint,
           cols |-> colNo.cols,
           layouts |-> Undefined]

\* the new layouts are not recorded in the state
getDerivedStateFromPropsUnrecorded(nextProps, prevState) ==
  IF prevState.layouts # Defined(nextProps.layouts)
  THEN [prevState EXCEPT
          !.layout = findOrGenerateResponsiveLayout(nextProps.layouts,
                       nextProps.breakpoints, prevState.breakpoint,
                       prevState.breakpoint, prevState.cols, compactType)]
  ELSE prevState

\* the state after getDerivedStateFromProps(nextProps, prevState)
getDerivedStateFromProps(nextProps, prevState) ==
  IF prevState.layouts # Defined(nextProps.layouts)
  THEN [prevState EXCEPT
          !.layout = findOrGenerateResponsiveLayout(nextProps.layouts,
                       nextProps.breakpoints, prevState.breakpoint,
                       prevState.breakpoint, prevState.cols, compactType),
          !.layouts = Defined(nextProps.layouts)]
  ELSE prevState

\* a callback of the responsive component invoked; seen is this.state then
BreakpointNote(breakpoint, c, seen) ==
  [cb |-> "onBreakpointChange", breakpoint |-> breakpoint, cols |-> c,
   seen |-> seen]
LayoutNote(lay, layouts, seen) ==
  [cb |-> "onLayoutChange", layout |-> lay, layouts |-> layouts, seen |-> seen]
WidthNote(width, c, seen) ==
  [cb |-> "onWidthChange", width |-> width, cols |-> c, seen |-> seen]

\* a breakpoint that ignores the width
NewBreakpointIgnoringWidth(nextProps) ==
  IF nextProps.breakpoint # Unset THEN nextProps.breakpoint
  ELSE getBreakpointFromWidth(nextProps.breakpoints, 0)

\* nextProps.breakpoint || getBreakpointFromWidth(...)
NewBreakpoint(nextProps) ==
  IF nextProps.breakpoint # Unset THEN nextProps.breakpoint
  ELSE getBreakpointFromWidth(nextProps.breakpoints, nextProps.width)

\* a column count that falls back to one column
NewColsDefaulted(newBreakpoint, colsMap) ==
  IF newBreakpoint \in DOMAIN colsMap THEN [cols |-> colsMap[newBreakpoint]]
  ELSE [cols |-> 1]

NewCols(newBreakpoint, colsMap) == getColsFromBreakpoint(newBreakpoint, colsMap)

\* the current layout is never kept
PreserveNothing(copy, layouts, lastBreakpoint, stateLayout) == copy

\* Preserve the current layout if the current breakpoint is not present in
\* the next layouts
PreserveCurrent(copy, layouts, lastBreakpoint, stateLayout) ==
  IF ~In(lastBreakpoint, layouts)
  THEN Assign(copy, lastBreakpoint, cloneLayout(stateLayout))
  ELSE copy

\* onWidthChange is called on breakpoint changes only
WidthCallbacksOnChangeOnly(changed, bc, lc, wc) ==
  IF changed THEN <<bc, lc>> ELSE <<wc>>

\* the callbacks of onWidthChange in the order of their calls
WidthCallbacks(changed, bc, lc, wc) ==
  IF changed THEN <<bc, lc, wc>> ELSE <<wc>>

\* onWidthChange(nextProps) of the component with props thisProps and the
\* given state: whether it threw, the callbacks, the state after setState
\* and the own keys of the object of the layouts prop afterwards
onWidthChange(nextProps, thisProps, state) ==
  LET breakpoints == nextProps.breakpoints
      layouts == nextProps.layouts
      lastBreakpoint == state.breakpoint
      stateLayout == state.layout
      newBreakpoint == NewBreakpoint(nextProps)
      newCols == NewCols(newBreakpoint, nextProps.cols)
      changed == \/ lastBreakpoint # newBreakpoint
                 \/ thisProps.breakpoints # breakpoints
                 \/ thisProps.cols # nextProps.cols
      kept == PreserveCurrent(Spread(layouts), layouts, lastBreakpoint,
                              stateLayout)
      lay == synchronizeCols(
               findOrGenerateResponsiveLayout(kept.fields, breakpoints,
                 newBreakpoint, lastBreakpoint, newCols.cols, compactType),
               children, newCols.cols, compactType)
      modifiedLayouts == Assign(kept, newBreakpoint, lay)
  IN IF newCols = Thrown
     THEN [thrown |-> TRUE, emitted |-> <<>>, state |-> state,
           layouts |-> layouts]
     ELSE [thrown |-> FALSE,
           emitted |-> WidthCallbacks(changed,
                         BreakpointNote(newBreakpoint, newCols.cols, state),
                         LayoutNote(lay, modifiedLayouts.fields, state),
                         WidthNote(nextProps.width, newCols.cols, state)),
           state |-> IF changed
                     THEN [state EXCEPT !.breakpoint = newBreakpoint,
                                        !.layout = lay, !.cols = newCols.cols]
                     ELSE state,
           layouts |-> IF changed /\ modifiedLayouts.ref = PropsLayouts
                       THEN modifiedLayouts.fields ELSE layouts]

\* the container the component renders is not stepped
container == <<layout, children, compactType, verticalCompact, preventCollision,
               races, heap, layoutState, oldLayout, oldDragItem, oldResizeItem,
               activeDrag, mounted, childrenKeys, dragging, resizing, session>>

ResponsiveProps ==
  [width : Widths, breakpoint : {Unset, "lg", "sm"},
   breakpoints : BreakpointsInputs, cols : ColsInputs, layouts : LayoutsInputs]

\* the component as its constructor leaves it
Constructed(P) ==
  LET st == generateInitialState(P)
  IN IF st = Thrown
     THEN [props |-> P, failed |-> TRUE, mounted |-> FALSE,
           state |-> [layout |-> <<>>, breakpoint |-> NullRef, cols |-> 0,
                      layouts |-> Undefined]]
     ELSE [props |-> P, failed |-> FALSE, mounted |-> FALSE, state |-> st]

InitResponsive ==
  /\ InitFrom({LayoutStatic}, {KeyOrder})
  /\ verticalCompact /\ compactType = "vertical" /\ ~preventCollision
  /\ \E P \in ResponsiveProps : responsive = Constructed(P)

\* the first render: getDerivedStateFromProps
MountResponsive ==
  /\ ~responsive.failed
  /\ ~responsive.mounted
  /\ responsive' = [responsive EXCEPT
                      !.mounted = TRUE,
                      !.state = getDerivedStateFromProps(responsive.props,
                                                         responsive.state)]
  /\ emitted' = <<>>
  /\ lastOp' = [op |-> "mountResponsive"]
  /\ UNCHANGED container

\* the parent renders the component with nextProps: getDerivedStateFromProps,
\* then componentDidUpdate(prevProps), which calls onWidthChange(this.props)
Update(op, nextProps) ==
  LET prevProps == responsive.props
      derived == getDerivedStateFromProps(nextProps, responsive.state)
      r == onWidthChange(nextProps, nextProps, derived)
  IN /\ ~responsive.failed
     /\ responsive.mounted
     /\ nextProps # prevProps
     /\ IF \/ nextProps.width # prevProps.width
           \/ nextProps.breakpoint # prevProps.breakpoint
           \/ nextProps.breakpoints # prevProps.breakpoints
           \/ nextProps.cols # prevProps.cols
        THEN /\ responsive' =
                  [responsive EXCEPT
                     !.props = [nextProps EXCEPT !.layouts = r.layouts],
                     !.state = r.state, !.failed = r.thrown]
             /\ emitted' = r.emitted
        ELSE /\ responsive' = [responsive EXCEPT !.props = nextProps,
                                                 !.state = derived]
             /\ emitted' = <<>>
     /\ lastOp' = [op |-> op, nextProps |-> nextProps]
     /\ UNCHANGED container

\* the parent renders the component with props equal to the ones it has:
\* getDerivedStateFromProps, and componentDidUpdate finds nothing changed
Rerender ==
  /\ ~responsive.failed
  /\ responsive.mounted
  /\ responsive' = [responsive EXCEPT
                      !.state = getDerivedStateFromProps(responsive.props,
                                                         responsive.state)]
  /\ emitted' = <<>>
  /\ lastOp' = [op |-> "render"]
  /\ UNCHANGED container

SetWidth(width) ==
  Update("setWidth", [responsive.props EXCEPT !.width = width])
SetBreakpoint(breakpoint) ==
  Update("setBreakpoint", [responsive.props EXCEPT !.breakpoint = breakpoint])
SetBreakpoints(breakpoints) ==
  Update("setBreakpoints", [responsive.props EXCEPT !.breakpoints = breakpoints])
SetCols(colsMap) ==
  Update("setCols", [responsive.props EXCEPT !.cols = colsMap])
SetLayouts(layouts) ==
  Update("setLayouts", [responsive.props EXCEPT !.layouts = layouts])

\* onLayoutChange(layout), called by the container with the layout it stores
WrappedLayoutChange(lay) ==
  LET layouts == responsive.props.layouts
      breakpoint == responsive.state.breakpoint
      delivered == Assign(Spread(layouts), breakpoint, lay)
  IN /\ ~responsive.failed
     /\ responsive.mounted
     /\ emitted' = <<LayoutNote(lay, delivered.fields, responsive.state)>>
     /\ responsive' = [responsive EXCEPT
                         !.props.layouts = IF delivered.ref = PropsLayouts
                                           THEN delivered.fields ELSE layouts]
     /\ lastOp' = [op |-> "onLayoutChange", layout |-> lay]
     /\ UNCHANGED container

\* the values the layouts validator is applied to
InvalidLayout == <<Item("a", 0, 0, 1, 1), Item("a", 0, 1, 1, 1)>>
LayoutsPropValues ==
  {[type |-> t, fields |-> EmptyObject] : t \in {"[object Array]", "[object Null]"}}
  \cup {[type |-> "[object Object]", fields |-> f] :
          f \in UNION {[K -> {LayoutNarrow, InvalidLayout}] :
                         K \in SUBSET {"lg", "xl", "constructor"}}}

\* the validator applied to a value of the layouts prop, before construction
CallLayoutsPropType(value) ==
  /\ lastOp.op = "init"
  /\ lastOp' = [op |-> "propTypes.layouts", value |-> value,
                breakpoints |-> responsive.props.breakpoints,
                out |-> LayoutsPropType(value, responsive.props.breakpoints)]
  /\ UNCHANGED <<container, emitted, responsive>>

NextResponsive ==
  \/ MountResponsive
  \/ \E width \in Widths : SetWidth(width)
  \/ \E breakpoint \in {Unset, "lg", "sm"} : SetBreakpoint(breakpoint)
  \/ \E breakpoints \in BreakpointsInputs : SetBreakpoints(breakpoints)
  \/ \E colsMap \in ColsInputs : SetCols(colsMap)
  \/ \E layouts \in LayoutsInputs : SetLayouts(layouts)
  \/ \E lay \in {LayoutWide, LayoutNarrow} : WrappedLayoutChange(lay)
  \/ Rerender
  \/ \E value \in LayoutsPropValues : CallLayoutsPropType(value)

SpecResponsive == InitResponsive /\ [][NextResponsive]_vars

\* ------------------------------------------------- resizing in a taller grid
\* Resize gestures on a container whose maxRows prop leaves room for one row
\* more than the layouts use.
TallRows == maxRows + 1
PxHeightTall == {k * (rowHeight + MarginPx) : k \in 0..TallRows}

\* a is wider than b and c, which lie below it
LayoutTall ==
  <<Item("a", 0, 0, 2, 1),
    [Item("b", 1, 1, 1, 1) EXCEPT !.isDraggable = "false", !.isResizable = "false"],
    [Item("c", 0, 2, 1, 1) EXCEPT !.static = TRUE]>>
ResizeLayouts == {LayoutOverlap, LayoutStatic, LayoutTall}

InitResize == InitFrom(ResizeLayouts, {KeyOrder}) /\ responsive = Null

\* onResizeHandler("onResize") of a GridItem with maxRows = TallRows
onResizeTall(l, height, width) ==
  LET size == [width |-> width, height |-> height]
      wh == ResizeWHRows(l, size.height, size.width, TallRows)
  IN /\ resizable(l)
     /\ resizing[l.i] # Null
     /\ resizing' = [resizing EXCEPT ![l.i] = size]
     /\ handleResize(l.i, wh.w, wh.h)
     /\ UNCHANGED dragging

NextResize ==
  \/ Mount
  \/ \E n \in Rendered : onResizeStart(heap[layoutState][n])
  \/ \E n \in Rendered, height \in PxHeightTall, width \in PxWidth :
       onResizeTall(heap[layoutState][n], height, width)
  \/ \E n \in Rendered : onResizeStop(heap[layoutState][n])

SpecResize == InitResize /\ [][NextResize]_vars

\* ------------------------------------------------------------- vocabulary
StartOps == {"handleDragStart", "handleResizeStart"}
MoveOps == {"handleDrag", "handleResize"}
StopOps == {"handleDragStop", "handleResizeStop"}
GestureOps == StartOps \cup MoveOps \cup StopOps

\* the onLayoutChange calls among the callbacks of the last operation
LayoutChanges(e) == SelectSeq(e, LAMBDA n : n.cb = "onLayoutChange")

Stored == heap[layoutState]

Geometry(lay) ==
  [n \in 1..Len(lay) |->
     [i |-> lay[n].i, x |-> lay[n].x, y |-> lay[n].y, w |-> lay[n].w, h |-> lay[n].h]]

\* this step is a Stop of the session that was active, delivered with the
\* item in the layout and no event of another gesture in between
CleanStop ==
  /\ session # Null
  /\ session.clean
  /\ lastOp'.op \in StopOps
  /\ lastOp'.inSession
  /\ lastOp'.present

C2_OldLayoutKeepsGeometry ==
  (session # Null /\ session.clean /\ oldLayout # NullRef)
    => Geometry(heap[oldLayout]) = Geometry(session.layout)

NoOverlap(lay) ==
  \A m, n \in 1..Len(lay) :
    (m < n /\ ~lay[m].static /\ ~lay[n].static) => ~collides(lay[m], lay[n])

C5_ResizeKeepsSizeBounds ==
  (lastOp.op = "handleResize" /\ lastOp.present) =>
    LET l == getLayoutItem(Stored, lastOp.i)
    IN (l # Null /\ ~l.static) =>
         /\ l.minW <= l.w /\ l.w <= l.maxW
         /\ l.minH <= l.h /\ l.h <= l.maxH

OldLayoutValue == IF oldLayout = NullRef THEN <<>> ELSE heap[oldLayout]

\* C7: a drag or resize event of any phase whose key is absent from the
\* stored layout changes neither the stored layout nor the session state and
\* calls no callback
C7_AbsentKeyIsNoOp ==
  [][(lastOp'.op \in GestureOps /\ ~lastOp'.present) =>
       /\ emitted' = <<>>
       /\ heap'[layoutState'] = heap[layoutState]
       /\ (oldLayout' = NullRef) = (oldLayout = NullRef)
       /\ OldLayoutValue' = OldLayoutValue
       /\ UNCHANGED <<activeDrag, oldDragItem, oldResizeItem>>]_vars

\* the session state is cleared
SessionCleared(op) ==
  /\ activeDrag = Null
  /\ oldLayout = NullRef
  /\ op = "handleDragStop" => oldDragItem = Null
  /\ op = "handleResizeStop" => oldResizeItem = Null

\* C8: once the Stop of a session has been delivered, activeDrag, the old
\* item and oldLayout are null, also when the item was removed meanwhile
C8_StopLeavesIdle ==
  (lastOp.op \in StopOps /\ lastOp.inSession) => SessionCleared(lastOp.op)

\* C8 (amended): once the Stop of a session whose item is in the stored
\* layout has been delivered, activeDrag, the old item and oldLayout are null
C8_PresentStopLeavesIdle ==
  (lastOp.op \in StopOps /\ lastOp.inSession /\ lastOp.present) =>
    SessionCleared(lastOp.op)

\* a drag session that changed the layout has been stopped
C8_Witness ==
  /\ lastOp.op = "handleDragStop" /\ lastOp.inSession /\ lastOp.present
  /\ LayoutChanges(emitted) # <<>>

\* C9: a Start delivered while another session is active calls no callback
\* and leaves that session's old item and oldLayout as they are
C9_StartWhileActiveRejected ==
  [][(lastOp'.op \in StartOps /\ lastOp'.present /\ session # Null) =>
       /\ emitted' = <<>>
       /\ oldLayout' # NullRef
       /\ OldLayoutValue' = OldLayoutValue
       /\ UNCHANGED <<oldDragItem, oldResizeItem>>]_vars

\* the item of key i placed where the pointer position pos takes it
AtDestination(lay, i, pos) ==
  LET l == getLayoutItem(lay, i)
      xy == calcXY(l, pos.top, pos.left)
  IN [l EXCEPT !.x = xy.x, !.y = xy.y]

\* C10: with preventCollision, a drag Move or Stop whose destination makes
\* the dragged item collide with another item leaves the x, y, w, h of every
\* item as they are
C10_CollidingDragRejected ==
  [][\A i \in Keys :
       LET pos == IF lastOp'.op = "handleDrag" THEN dragging'[i] ELSE dragging[i]
       IN (/\ preventCollision
           /\ lastOp'.op \in {"handleDrag", "handleDragStop"}
           /\ lastOp'.i = i /\ lastOp'.present
           /\ pos # Null
           /\ getAllCollisions(heap[layoutState],
                               AtDestination(heap[layoutState], i, pos)) # <<>>)
          => Geometry(heap'[layoutState']) = Geometry(heap[layoutState])]_vars

\* a drag Move towards an occupied cell has been delivered under
\* preventCollision
C10_Witness ==
  /\ preventCollision
  /\ lastOp.op = "handleDrag" /\ lastOp.present
  /\ dragging[lastOp.i] # Null
  /\ getAllCollisions(Stored, AtDestination(Stored, lastOp.i, dragging[lastOp.i])) # <<>>

\* the size the resize Move of this step asked for, in SpecResize
Requested(i) ==
  ResizeWHRows(getLayoutItem(heap[layoutState], i), resizing'[i].height,
               resizing'[i].width, TallRows)

\* this step is a resize Move of item i, which is in the stored layout
ResizeMoveOf(i) ==
  /\ lastOp'.op = "handleResize" /\ lastOp'.i = i /\ lastOp'.present
  /\ resizing'[i] # Null

\* the items other than l that l would overlap with size w, h
Colliders(lay, l, w, h) == getAllCollisions(lay, [l EXCEPT !.w = w, !.h = h])

\* C11: with preventCollision, when the resized item overlaps nothing in the
\* stored layout, it overlaps nothing after a resize Move either
C11_ResizeNeverOverlaps ==
  [][\A i \in Keys :
       (/\ preventCollision
        /\ ResizeMoveOf(i)
        /\ getAllCollisions(heap[layoutState],
                            getLayoutItem(heap[layoutState], i)) = <<>>)
       => getAllCollisions(heap'[layoutState'],
                           getLayoutItem(heap'[layoutState'], i)) = <<>>]_vars

\* C12: with preventCollision a colliding resize stops the right edge at the
\* nearest colliding neighbour to the right and the bottom edge at the nearest
\* one below, and an axis whose reduction is not needed once the other axis
\* is reduced keeps the requested size
C12_LargestFreeSize ==
  [][\A i \in Keys :
       (preventCollision /\ ResizeMoveOf(i)) =>
         LET l == getLayoutItem(heap[layoutState], i)
             req == Requested(i)
             cs == Colliders(heap[layoutState], l, req.w, req.h)
             leastX == LeastX(cs, l)
             leastY == LeastY(cs, l)
             rw == IF leastX # Infinity THEN leastX - l.x ELSE req.w
             rh == IF leastY # Infinity THEN leastY - l.y ELSE req.h
             needsW == Colliders(heap[layoutState], l, req.w, rh) # <<>>
             needsH == Colliders(heap[layoutState], l, rw, req.h) # <<>>
             after == getLayoutItem(heap'[layoutState'], i)
         IN (cs # <<>> /\ (needsW \/ needsH)) =>
              /\ after.w = IF needsW THEN rw ELSE req.w
              /\ after.h = IF needsH THEN rh ELSE req.h]_vars

\* C14: a resize Move that meets no collision, or is made with
\* preventCollision false, sets w, h, persistentW and persistentH to the
\* requested size; one that is shrunk because of a collision leaves
\* persistentW and persistentH as they are
C14_PersistentSize ==
  [][\A i \in Keys :
       ResizeMoveOf(i) =>
         LET l == getLayoutItem(heap[layoutState], i)
             req == Requested(i)
             after == getLayoutItem(heap'[layoutState'], i)
         IN IF preventCollision
               /\ Colliders(heap[layoutState], l, req.w, req.h) # <<>>
            THEN /\ after.persistentW = l.persistentW
                 /\ after.persistentH = l.persistentH
            ELSE /\ after.w = req.w /\ after.h = req.h
                 /\ after.persistentW = req.w /\ after.persistentH = req.h]_vars

\* a resize Move has been shrunk after an earlier one was accepted: the item
\* is smaller than the size it remembers
C14_Witness ==
  /\ preventCollision
  /\ lastOp.op = "handleResize" /\ lastOp.present
  /\ getLayoutItem(Stored, lastOp.i).persistentW > getLayoutItem(Stored, lastOp.i).w

\* C15: a Start changes neither the stored layout nor the placeholder,
\* records the item and the layout, and calls the start callback with the
\* stored layout as it was before the event
C15_StartLeavesLayout ==
  [][(lastOp'.op \in StartOps /\ lastOp'.present) =>
       LET l == getLayoutItem(heap[layoutState], lastOp'.i)
           cb == IF lastOp'.op = "handleDragStart" THEN "onDragStart"
                 ELSE "onResizeStart"
       IN /\ heap'[layoutState'] = heap[layoutState]
          /\ activeDrag' = activeDrag
          /\ lastOp'.op = "handleDragStart" => oldDragItem' = l
          /\ lastOp'.op = "handleResizeStart" => oldResizeItem' = l
          /\ oldLayout' # NullRef
          /\ OldLayoutValue' = heap[layoutState]
          /\ emitted' = <<Note(cb, heap[layoutState], l, l, Null)>>]_vars

\* a Start has recorded the item and the layout
C15_Witness ==
  /\ lastOp.op = "handleResizeStart" /\ lastOp.present
  /\ oldLayout # NullRef
  /\ oldResizeItem = getLayoutItem(Stored, lastOp.i)
  /\ Len(emitted) = 1 /\ emitted[1].layout = Stored

\* C16: the layout a Move callback is called with is the layout this Move
\* stores, the result of the compaction
C16_MoveCarriesStoredLayout ==
  (lastOp.op \in MoveOps /\ lastOp.present) =>
    \A n \in 1..Len(emitted) :
      emitted[n].cb \in {"onDrag", "onResize"} => emitted[n].layout = Stored

\* the placeholder arguments of the callbacks of the last operation: null for
\* Start and Stop, a placeholder with the item's key for Move
PlaceholderArguments ==
  \A n \in 1..Len(emitted) :
    /\ emitted[n].cb \in {"onDragStart", "onResizeStart", "onDragStop",
                          "onResizeStop"} => emitted[n].placeholder = Null
    /\ emitted[n].cb \in {"onDrag", "onResize"} =>
         /\ emitted[n].placeholder # Null
         /\ emitted[n].placeholder.i = lastOp.i

\* C17: the placeholder argument is null for every Start and Stop callback
\* and a placeholder with the item's key for every Move callback; the stored
\* placeholder is non-null only between the first Move and the Stop of a
\* session
C17_PlaceholderLifetime ==
  /\ PlaceholderArguments
  /\ activeDrag # Null => session # Null
  /\ (lastOp.op \in StartOps /\ lastOp.present) => activeDrag = Null
  /\ (lastOp.op \in StopOps /\ lastOp.inSession) => activeDrag = Null

\* C17 (amended): the placeholder argument is null for every Start and Stop
\* callback and a placeholder with the item's key for every Move callback;
\* the stored placeholder is set by every Move and null after every Stop
\* delivered for an item in the stored layout, and it is non-null only while
\* oldLayout is
C17_PlaceholderSetByMove ==
  /\ PlaceholderArguments
  /\ (lastOp.op \in MoveOps /\ lastOp.present) =>
       activeDrag # Null /\ activeDrag.i = lastOp.i
  /\ (lastOp.op \in StopOps /\ lastOp.present) => activeDrag = Null
  /\ activeDrag # Null => oldLayout # NullRef

\* a Move has called its callback with the placeholder it stores
C17_Witness ==
  /\ lastOp.op = "handleDrag" /\ lastOp.present
  /\ Len(emitted) = 1 /\ emitted[1].placeholder = activeDrag
  /\ activeDrag # Null

\* v brought into [lo, hi]
Clamp(v, lo, hi) == IF v < lo THEN lo ELSE IF v > hi THEN hi ELSE v

\* C13: the size a resize event delivers is calcWH's w clamped to
\* [1, cols - x] and then to [minW, maxW], and its h clamped to [minH, maxH];
\* with minW <= maxW and minH <= maxH it lies within these bounds
C13_DeliveredSizeClamped ==
  lastOp.op = "onResizeHandler" =>
    LET l == lastOp.l
        out == lastOp.out
    IN /\ l.minW <= l.maxW =>
            /\ out.w = Clamp(Clamp(lastOp.wh.w, 1, cols - l.x), l.minW, l.maxW)
            /\ l.minW <= out.w /\ out.w <= l.maxW
       /\ l.minW > l.maxW => out.w = l.minW
       /\ l.minH <= l.maxH =>
            /\ out.h = Clamp(lastOp.wh.h, l.minH, l.maxH)
            /\ l.minH <= out.h /\ out.h <= l.maxH
       /\ l.minH > l.maxH => out.h = l.minH

\* a request wider than maxW and lower than minH has been capped
C13_Witness ==
  /\ lastOp.op = "onResizeHandler"
  /\ lastOp.l.minW <= lastOp.l.maxW /\ lastOp.l.minH <= lastOp.l.maxH
  /\ lastOp.wh.w > lastOp.l.maxW /\ lastOp.out.w = lastOp.l.maxW
  /\ lastOp.wh.h < lastOp.l.minH /\ lastOp.out.h = lastOp.l.minH

\* C18: the flags in effect for a static item are not draggable and not
\* resizable, whatever the container, the item and the child's data-grid say
C18_StaticNeverDragResize ==
  (lastOp.op = "processGridItem" /\ lastOp.static) =>
    ~lastOp.out.draggable /\ ~lastOp.out.resizable

\* the value of a tri-state flag over a default
Override(itemFlag, containerFlag) ==
  IF itemFlag = Unset THEN containerFlag ELSE itemFlag = "true"

\* C19: for a non-static item each of isDraggable, isResizable, isBounded in
\* effect is the container's value when the item's flag is unset and the
\* item's value when it is set
C19_ItemFlagOverrides ==
  (lastOp.op = "processGridItem" /\ ~lastOp.static) =>
    /\ lastOp.out.draggable =
         Override(lastOp.item.isDraggable, lastOp.container.isDraggable)
    /\ lastOp.dataGrid = Unset =>
         lastOp.out.resizable =
           Override(lastOp.item.isResizable, lastOp.container.isResizable)
    /\ lastOp.out.bounded =
         Override(lastOp.item.isBounded, lastOp.container.isBounded)

\* C20: the grid target a drag event delivers has x >= 0, x + w <= cols and
\* y >= 0, for every pixel position, when w <= cols
C20_DragTargetClamped ==
  (lastOp.op = "calcXY" /\ lastOp.w <= cols) =>
    /\ lastOp.out.x >= 0
    /\ lastOp.out.x + lastOp.w <= cols
    /\ lastOp.out.y >= 0

\* a position right of the last column the item fits in has been capped
C20_Witness ==
  /\ lastOp.op = "calcXY" /\ lastOp.w <= cols
  /\ Round(lastOp.left - containerPadding[1], calcColWidth + margin[1])
       + lastOp.w > cols
  /\ lastOp.out.x = cols - lastOp.w
  /\ lastOp.top < 0 /\ lastOp.out.y = 0

\* the keys of the children, as a set
ChildKeys(ch) == {ch[n] : n \in 1..Len(ch)}

\* C21: the stored layout has exactly the keys of the current children, at
\* construction, after mount, after every change of the children or of the
\* layout input, and after every drag and resize event
C21_KeysAreChildren ==
  /\ LayoutKeys(Stored) = ChildKeys(children)
  /\ Len(Stored) = Cardinality(ChildKeys(children))

\* a child has been removed and its item has left the stored layout, and a
\* gesture event was delivered afterwards
C21_Witness ==
  /\ layout = LayoutOverlap
  /\ children = <<"b", "c">>
  /\ LayoutKeys(Stored) = {"b", "c"}
  /\ lastOp.op \in GestureOps

\* C22: compacting a compacted layout returns an equal layout, for the
\* vertical and the horizontal compaction type
C22_CompactIdempotent ==
  lastOp.op = "compact" => lastOp.again = lastOp.out

\* C28: when the keys of the children change, the layout is regenerated from
\* the stored layout, so the surviving items keep the geometry the stored
\* layout gives them
C28_ChildrenKeepStoredBase ==
  [][(lastOp'.op = "setChildren" /\ childrenKeys' # childrenKeys) =>
       Geometry(heap'[layoutState']) =
         Geometry(synchronizeLayoutWithChildren(heap[layoutState], children',
                                                fixCompactType))]_vars

\* ---- the responsive component
\* the props updates after which componentDidUpdate calls onWidthChange
WidthOps == {"setWidth", "setBreakpoint", "setBreakpoints", "setCols"}

\* C23: no operation of the responsive component changes the object of the
\* layouts prop: it has the same keys bound to the same layouts until the
\* caller passes another one, and then it is the one the caller passed
C23_CallerLayoutsUntouched ==
  [][IF lastOp'.op = "setLayouts"
     THEN responsive'.props.layouts = lastOp'.nextProps.layouts
     ELSE responsive'.props.layouts = responsive.props.layouts]_vars

\* a breakpoint change has delivered a mapping that differs from the caller's
C23_Witness ==
  /\ lastOp.op = "setWidth"
  /\ Len(emitted) = 3
  /\ emitted[2].layouts # responsive.props.layouts
  /\ responsive.props.layouts = [sm |-> LayoutNarrow]

\* C24: after every processed props update the stored cols is the entry of
\* the current cols map for the stored breakpoint, and a change of the cols
\* map or of the breakpoints map regenerates the stored layout even when the
\* breakpoint that is resolved is the stored one
C24_StateFollowsConfiguration ==
  [][(lastOp'.op \in WidthOps /\ ~responsive'.failed) =>
       LET st == responsive'.state
           P == responsive'.props
           before == responsive.state
           base == IF before.breakpoint \in DOMAIN P.layouts THEN P.layouts
                   ELSE Put(P.layouts, before.breakpoint, before.layout)
       IN /\ st.cols = P.cols[st.breakpoint]
          /\ lastOp'.op \in {"setBreakpoints", "setCols"} =>
               st.layout =
                 synchronizeCols(
                   findOrGenerateResponsiveLayout(base, P.breakpoints,
                     st.breakpoint, before.breakpoint, P.cols[st.breakpoint],
                     compactType),
                   children, P.cols[st.breakpoint], compactType)]_vars

\* the breakpoint a props value resolves to
Resolved(P) ==
  IF P.breakpoint # Unset THEN P.breakpoint
  ELSE getBreakpointFromWidth(P.breakpoints, P.width)

\* C25: when the breakpoint that is resolved has no entry in the cols map,
\* the width-change processing throws, calls no callback and leaves the
\* stored breakpoint, cols and layout as they are; it throws in no other case
C25_MissingColsFailsFast ==
  [][lastOp'.op \in WidthOps =>
       IF Resolved(responsive'.props) \notin DOMAIN responsive'.props.cols
       THEN /\ responsive'.failed
            /\ emitted' = <<>>
            /\ responsive'.state = responsive.state
       ELSE ~responsive'.failed]_vars

\* a cols map without the resolved breakpoint has been passed
C25_Witness ==
  /\ lastOp.op = "setCols"
  /\ responsive.failed
  /\ responsive.state.breakpoint = "md"
  /\ "md" \notin DOMAIN responsive.props.cols

\* C26: the validator of the layouts prop throws exactly when the value is
\* not a plain object, or one of its keys is no key of the breakpoints map,
\* or one of its layouts fails the layout validation
C26_LayoutsValidation ==
  lastOp.op = "propTypes.layouts" =>
    ((lastOp.out = Thrown) <=>
       \/ lastOp.value.type # "[object Object]"
       \/ \E key \in DOMAIN lastOp.value.fields :
            \/ key \notin DOMAIN lastOp.breakpoints
            \/ validateLayout(lastOp.value.fields[key]) = Thrown)

\* the selection is monotone in the width, and a width below every threshold
\* selects the smallest threshold
MonotoneSelection(breakpoints) ==
  /\ \A w1, w2 \in Widths :
       w1 < w2 => breakpoints[getBreakpointFromWidth(breakpoints, w1)]
                    <= breakpoints[getBreakpointFromWidth(breakpoints, w2)]
  /\ \A w \in Widths :
       (\A b \in DOMAIN breakpoints : w < breakpoints[b]) =>
         \A b \in DOMAIN breakpoints :
           breakpoints[getBreakpointFromWidth(breakpoints, w)] <= breakpoints[b]

\* the stored breakpoint is the one the selection gives for the width
StoredForWidth ==
  /\ responsive.state.breakpoint =
       getBreakpointFromWidth(responsive.props.breakpoints, responsive.props.width)
  /\ MonotoneSelection(responsive.props.breakpoints)

\* C27: the breakpoint stored for a width is the one selected for it, the
\* selection is monotone in the width, and a width below every threshold
\* stores the breakpoint with the smallest threshold
C27_StoredBreakpointMonotone ==
  ~responsive.failed => StoredForWidth

\* C27 (amended): the same, when no breakpoint input is provided
C27_StoredBreakpointMonotoneUnlessGiven ==
  (~responsive.failed /\ responsive.props.breakpoint = Unset) => StoredForWidth

\* a width below every threshold has been processed and the smallest
\* threshold is stored, after a wider one
C27_Witness ==
  /\ lastOp.op = "setWidth"
  /\ responsive.props.breakpoint = Unset
  /\ responsive.props.width = 0
  /\ responsive.state.breakpoint = "sm"
  /\ Len(emitted) = 3 /\ emitted[1].seen.breakpoint = "lg"

C30_DeliveredMapping ==
  [][(/\ lastOp'.op \in WidthOps /\ ~responsive'.failed
      /\ responsive'.state.breakpoint # responsive.state.breakpoint) =>
       \E n \in 1..Len(emitted') :
         /\ emitted'[n].cb = "onLayoutChange"
         /\ responsive'.state.breakpoint \in DOMAIN emitted'[n].layouts
         /\ emitted'[n].layouts[responsive'.state.breakpoint] = emitted'[n].layout
         /\ responsive.state.breakpoint \notin DOMAIN responsive.props.layouts =>
              /\ responsive.state.breakpoint \in DOMAIN emitted'[n].layouts
              /\ emitted'[n].layouts[responsive.state.breakpoint]
                   = responsive.state.layout]_vars

\* the layout stored for lg has been delivered under lg with the one of sm
C30_Witness ==
  /\ lastOp.op = "setWidth"
  /\ Len(emitted) = 3
  /\ emitted[1].seen.breakpoint = "lg"
  /\ responsive.state.breakpoint = "sm"
  /\ "lg" \notin DOMAIN responsive.props.layouts
  /\ emitted[2].layouts["lg"] = emitted[1].seen.layout
  /\ emitted[2].layouts["sm"] = responsive.state.layout

\* C31: when the breakpoint input is provided, the stored breakpoint is
\* the provided one, in the initial state and after every props update
C31_GivenBreakpointStored ==
  (responsive # Null /\ ~responsive.failed
     /\ responsive.props.breakpoint # Unset) =>
    responsive.state.breakpoint = responsive.props.breakpoint

\* the props updates in which only getDerivedStateFromProps acts
DeriveOps == {"mountResponsive", "setLayouts", "render"}

\* C32: getDerivedStateFromProps leaves the stored layout, breakpoint and
\* cols as they are when the layouts input equals the recorded layouts;
\* when it differs, the stored layout is the one found or generated for the
\* stored breakpoint and cols, breakpoint and cols are unchanged and the
\* layouts input is recorded, so that a render with the same input changes
\* nothing
C32_DerivedState ==
  [][lastOp'.op \in DeriveOps =>
       LET old == responsive.state
           new == responsive'.state
           input == responsive'.props.layouts
       IN /\ new.breakpoint = old.breakpoint
          /\ new.cols = old.cols
          /\ new.layouts = Defined(input)
          /\ IF old.layouts = Defined(input)
             THEN new.layout = old.layout
             ELSE new.layout =
                    findOrGenerateResponsiveLayout(input,
                      responsive'.props.breakpoints, old.breakpoint,
                      old.breakpoint, old.cols, compactType)]_vars

\* a render with the layouts input recorded before has left the layout that
\* was generated for another layouts input than the initial one
C32_Witness ==
  /\ lastOp.op = "render"
  /\ responsive.state.layouts = Defined(responsive.props.layouts)
  /\ responsive.props.layouts = [lg |-> LayoutWide]
  /\ responsive.state.breakpoint = "sm"
  /\ responsive.state.layout # <<>>

\* ---- the events of a grid item
\* this step delivers a drag Move or Stop to the item with key k
DragFollowUp(k) ==
  /\ lastOp'.op \in {"onDrag", "onDragStop", "handleDrag", "handleDragStop"}
  /\ lastOp'.i = k

\* C33: a drag Move or Stop delivered to an item whose dragging state is
\* null (no Start, or a Start abandoned for want of an offset parent) throws
\* an error, calls no handler of the layout and leaves the dragging state null
C33_DragOrderEnforced ==
  [][\A k \in Keys :
       (DragFollowUp(k) /\ dragging[k] = Null) =>
         /\ "thrown" \in DOMAIN lastOp' /\ lastOp'.thrown
         /\ emitted' = <<>>
         /\ dragging' = dragging
         /\ UNCHANGED <<heap, layoutState, oldLayout, oldDragItem, activeDrag,
                        session>>]_vars

\* a drag Stop has been rejected while a layout was stored and no drag on
\* the item was active
C33_Witness ==
  /\ mounted
  /\ lastOp.op = "onDragStop" /\ lastOp.i = "a"
  /\ "thrown" \in DOMAIN lastOp /\ lastOp.thrown
  /\ dragging["a"] = Null

\* the handlers of the layout this step has called for the item with key k
Handled(k, ops) == lastOp'.op \in ops /\ lastOp'.i = k

\* C34: the dragging state of an item is null until a drag Start is
\* accepted, non-null after it and after every drag Move, and null after the
\* drag Stop; its resizing state is null until a resize Start or Move,
\* non-null after each of them, and null after the resize Stop; after a Stop
\* both are null
C34_GestureStateFollowsEvents ==
  [][\A k \in Keys :
       /\ (dragging[k] = Null /\ dragging'[k] # Null) =>
            Handled(k, {"handleDragStart"})
       /\ (dragging[k] # Null /\ dragging'[k] = Null) =>
            Handled(k, {"handleDragStop"})
       /\ Handled(k, {"handleDragStart", "handleDrag"}) => dragging'[k] # Null
       /\ (resizing[k] = Null /\ resizing'[k] # Null) =>
            Handled(k, {"handleResizeStart", "handleResize"})
       /\ (resizing[k] # Null /\ resizing'[k] = Null) =>
            Handled(k, {"handleResizeStop"})
       /\ Handled(k, {"handleResizeStart", "handleResize"}) => resizing'[k] # Null
       /\ Handled(k, {"handleDragStop", "handleResizeStop"}) =>
            dragging'[k] = Null /\ resizing'[k] = Null]_vars

\* the Stop of a resize session with a Move has cleared the state of item a
C34_Witness ==
  /\ lastOp.op = "handleResizeStop" /\ lastOp.i = "a" /\ lastOp.inSession
  /\ resizing["a"] = Null /\ dragging["a"] = Null
  /\ Len(emitted) = 2

\* x, y, w, h of an item
ItemGeometry(l) == [x |-> l.x, y |-> l.y, w |-> l.w, h |-> l.h]

\* the Move and Stop notifications among the callbacks of an operation
FollowUps(e) ==
  SelectSeq(e, LAMBDA n : n.cb \in {"onDrag", "onDragStop", "onResize",
                                    "onResizeStop"})

\* C35: the oldItem of every Move and Stop notification of a session has the
\* x, y, w, h the item of the session had when Start was delivered
C35_OldItemIsStartGeometry ==
  [][(lastOp'.op \in MoveOps \cup StopOps /\ lastOp'.inSession) =>
       \A n \in 1..Len(FollowUps(emitted')) :
         /\ FollowUps(emitted')[n].oldItem # Null
         /\ ItemGeometry(FollowUps(emitted')[n].oldItem) =
              ItemGeometry(getLayoutItem(session.layout, session.i))]_vars

\* a drag Stop after Moves has carried an oldItem that is elsewhere than the
\* item of the layout it stores
C35_Witness ==
  /\ lastOp.op = "handleDragStop" /\ lastOp.inSession /\ lastOp.present
  /\ emitted[1].cb = "onDragStop"
  /\ emitted[1].oldItem.i = "a"
  /\ getLayoutItem(Stored, "a") # Null
  /\ ItemGeometry(emitted[1].oldItem) # ItemGeometry(getLayoutItem(Stored, "a"))

\* C36: after a drag or resize Move the stored placeholder has the x, y, w, h
\* of the item of the gesture in the layout this Move has stored
C36_PlaceholderIsStoredItem ==
  [][(lastOp'.op \in MoveOps /\ lastOp'.present) =>
       /\ activeDrag' # Null
       /\ ItemGeometry(activeDrag') =
            ItemGeometry(getLayoutItem(heap'[layoutState'], lastOp'.i))]_vars

\* no two items overlap, static or not
OverlapFree(lay) ==
  \A m, n \in 1..Len(lay) : m < n => ~collides(lay[m], lay[n])

\* the item lies within the columns and the rows of the grid
InGrid(l) == l.x >= 0 /\ l.x + l.w <= cols /\ l.y + l.h <= maxRows

\* this step is the Stop of a session that started on an overlap-free,
\* compacted layout, and the item of the session is in the stored layout
StopOnCompacted ==
  /\ CleanStop
  /\ OverlapFree(session.layout)
  /\ compact(session.layout, fixCompactType) = session.layout
  /\ getLayoutItem(Stored, session.i) # Null

\* the layout stored is the one of the Start and onLayoutChange is not called
Silent ==
  /\ heap'[layoutState'] = session.layout
  /\ LayoutChanges(emitted') = <<>>

\* C37: a session on an overlap-free, compacted layout at whose Stop the
\* item has the cell and the size it had at Start, with or without Moves in
\* between, leaves the layout of the Start stored and calls no onLayoutChange
C37_SilentSession ==
  [][(/\ StopOnCompacted
      /\ ItemGeometry(getLayoutItem(Stored, session.i)) =
           ItemGeometry(getLayoutItem(session.layout, session.i))) =>
       Silent]_vars

\* C37 for sessions without a Move: Start followed by Stop, on an
\* overlap-free, compacted layout whose item of the session lies within the
\* grid, leaves the layout of the Start stored and calls no onLayoutChange
C37_SilentWithoutMove ==
  [][(/\ StopOnCompacted
      /\ activeDrag = Null
      /\ Stored = session.layout
      /\ InGrid(getLayoutItem(Stored, session.i))) =>
       Silent]_vars

\* a drag Stop has called onDragStop alone and has stored the overlap-free,
\* compacted layout in which the item is where its oldItem was
C37_Witness ==
  /\ lastOp.op = "handleDragStop" /\ lastOp.inSession /\ lastOp.present
  /\ Len(emitted) = 1
  /\ emitted[1].layout = Stored
  /\ OverlapFree(Stored)
  /\ compact(Stored, fixCompactType) = Stored
  /\ ItemGeometry(emitted[1].oldItem) = ItemGeometry(getLayoutItem(Stored, "a"))
  /\ InGrid(getLayoutItem(Stored, "a"))
  /\ activeDrag = Null

\* ---- the bounded drag Move
\* the pixel width and height of the item of a call
ItemWidth == calcWidth(lastOp.w, calcColWidth)
ItemHeight == calcHeight(lastOp.h)

\* the position of the call plus the delta of the event
Unclamped ==
  [top |-> lastOp.dragging.top + lastOp.deltaY,
   left |-> lastOp.dragging.left + lastOp.deltaX]

\* C38: the position a drag Move of a bounded item records has
\* 0 <= left <= max(0, containerWidth - itemWidth) and
\* 0 <= top <= max(0, parentHeight - itemHeight); the one of an item that is
\* not bounded is the recorded position plus the delta
C38_BoundedDragStaysInside ==
  lastOp.op = "onDrag" =>
    IF lastOp.isBounded
    THEN /\ 0 <= lastOp.out.left
         /\ lastOp.out.left <= Max(0, containerWidth - ItemWidth)
         /\ 0 <= lastOp.out.top
         /\ lastOp.offsetParent # Null =>
              lastOp.out.top <= Max(0, lastOp.offsetParent.clientHeight - ItemHeight)
    ELSE lastOp.out = Unclamped

\* C38 for nodes with an offset parent: the bounds hold when the item is
\* bounded and its node has an offset parent; in every other case the
\* position is the recorded position plus the delta
C38_BoundedWithOffsetParent ==
  lastOp.op = "onDrag" =>
    IF lastOp.isBounded /\ lastOp.offsetParent # Null
    THEN /\ 0 <= lastOp.out.left
         /\ lastOp.out.left <= Max(0, containerWidth - ItemWidth)
         /\ 0 <= lastOp.out.top
         /\ lastOp.out.top <= Max(0, lastOp.offsetParent.clientHeight - ItemHeight)
    ELSE lastOp.out = Unclamped

\* a bounded Move beyond the right and the lower edge has been recorded at
\* the boundaries
C38_Witness ==
  /\ lastOp.op = "onDrag"
  /\ lastOp.isBounded /\ lastOp.offsetParent # Null
  /\ Unclamped.left > containerWidth - ItemWidth
  /\ lastOp.out.left = containerWidth - ItemWidth
  /\ lastOp.out.left > 0
  /\ Unclamped.top > lastOp.offsetParent.clientHeight - ItemHeight
  /\ lastOp.out.top = lastOp.offsetParent.clientHeight - ItemHeight
  /\ lastOp.out.top > 0

TypeOK ==
  /\ layoutState \in Addr
  /\ oldLayout \in Addr \cup {NullRef}
  /\ mounted \in BOOLEAN

====
